---- MODULE Spec2Model ----
(***************************************************************************)
(* AudioStream: the UDP transport (src/udp_streamer.py: UDPSender,         *)
(* UDPReceiver, AudioStreamer) and the playback queue                      *)
(* (src/audio_playback.py: AudioPlayback).                                 *)
(*                                                                         *)
(* Numbers that do not fit a 32-bit integer (the 32-bit sequence counter,  *)
(* the 64-bit timestamp, the sender's cumulative counters) are kept as     *)
(* big-endian tuples of 16-bit limbs, with the arithmetic done on the      *)
(* limbs, so that 2^32 - 1 and the wrap to 0 are the real values.          *)
(***************************************************************************)
EXTENDS Integers, Sequences, FiniteSets, TLC

\* ------------------------------------------------------------------ bounds

\* The most datagrams one run hands to the sender's socket.
MaxSend == 3

\* The most datagrams one run delivers to the receiver's socket.
MaxRecv == 3

\* Receive-loop threads alive at once: start() is not called when that many
\* are.
MaxThreads == 2

\* The largest buffer_size an AudioPlayback is constructed with.
BufferSize == 2

\* The buffer_size of an AudioPlayback constructed without one, as the
\* application constructs it (buffer_size: int = 10): a queue of
\* 2 x DefaultBufferSize frames.
DefaultBufferSize == 1

\* chunk_size: the rows the output device asks for in one callback.
ChunkSize == 2

\* The longest payload handed to decode(), in bytes.
MaxBytes == 4

\* The threads that call send() on one sender at the same time.
MaxSenders == 2

\* ------------------------------------------------------- program constants

\* channels: int = 2
Channels == 2

\* struct.calcsize('!IQ'): 4 bytes of sequence, 8 bytes of timestamp.
HEADER_SIZE == 12

\* "if lost < 1000:  # Reasonable gap"
REASONABLE_GAP == 1000

\* ------------------------------------------------------ wide unsigned ints

Base == 2^16

Front(w) == SubSeq(w, 1, Len(w) - 1)

Last(w) == w[Len(w)]

\* n < Base^width as a tuple of `width` limbs.
RECURSIVE WFromNat(_, _)
WFromNat(n, width) ==
  IF width = 0 THEN <<>>
  ELSE Append(WFromNat(n \div Base, width - 1), n % Base)

\* The value of w, for a w small enough to be a plain integer.
RECURSIVE WToNat(_)
WToNat(w) == IF w = <<>> THEN 0 ELSE WToNat(Front(w)) * Base + Last(w)

\* TRUE when every limb but the last is 0 (the value is below Base).
WSmall(w) == \A i \in 1..(Len(w) - 1) : w[i] = 0

\* (a + b + carry) modulo Base^Len(a), for a and b of one width.
RECURSIVE WAddC(_, _, _)
WAddC(a, b, carry) ==
  IF a = <<>> THEN <<>>
  ELSE LET s == Last(a) + Last(b) + carry
       IN  Append(WAddC(Front(a), Front(b), s \div Base), s % Base)

WAdd(a, b) == WAddC(a, b, 0)

\* (a - b - borrow) modulo Base^Len(a), for a and b of one width.
RECURSIVE WSubB(_, _, _)
WSubB(a, b, borrow) ==
  IF a = <<>> THEN <<>>
  ELSE LET d == Last(a) - Last(b) - borrow
       IN  IF d < 0
           THEN Append(WSubB(Front(a), Front(b), 1), d + Base)
           ELSE Append(WSubB(Front(a), Front(b), 0), d)

WSub(a, b) == WSubB(a, b, 0)

\* A 32-bit value n < 2^31 given as a plain integer.
U32(n) == WFromNat(n, 2)

\* 2^32 - 1.
U32Max == <<Base - 1, Base - 1>>

\* A Python int (unbounded in the program) is kept in 48 bits: more than
\* 2^32 datagrams of the largest size add up to.
PyInt(n) == WFromNat(n, 3)

\* a <= b for two values of one width.
RECURSIVE WLeq(_, _)
WLeq(a, b) ==
  \/ a = <<>>
  \/ a[1] < b[1]
  \/ a[1] = b[1] /\ WLeq(Tail(a), Tail(b))

\* The low 32 bits of a wide value: value % (2**32).
Mod2_32(w) == SubSeq(w, Len(w) - 1, Len(w))

\* The bytes of a wide value, most significant first ('!' network order).
RECURSIVE BytesOf(_)
BytesOf(w) ==
  IF w = <<>> THEN <<>>
  ELSE <<w[1] \div 256, w[1] % 256>> \o BytesOf(Tail(w))

\* The wide value of an even number of bytes, most significant first.
RECURSIVE OfBytes(_)
OfBytes(b) ==
  IF b = <<>> THEN <<>>
  ELSE <<b[1] * 256 + b[2]>> \o OfBytes(SubSeq(b, 3, Len(b)))

\* ------------------------------------------------------------------- state

VARIABLES
  sender,        \* the UDPSender object's fields
  receiver,      \* the UDPReceiver object's fields
  streamer,      \* the AudioStreamer object's own field (_running)
  sockets,       \* the UDP sockets that are open in the process
  threads,       \* the receive-loop threads that are alive
  wire,          \* the datagrams sendto() has transmitted, in order
  arrived,       \* the datagrams recvfrom() has returned, in order
  delivered,     \* the callback's invocations <<audio_data, sequence>>, in order
  session_sends, \* successful sends since the start() that started the sender
  lastOp         \* the operation that made the last step, and how it ended

VARIABLES
  playback,      \* the AudioPlayback object's fields
  audio_queue,   \* _audio_queue: the frames waiting for the output device
  outdata,       \* the output buffer as the last _audio_callback left it
  producer,      \* the thread inside play(): its position and its frame
  playOp         \* the playback operation that made the last step

VARIABLES
  callers        \* each calling thread's position inside AudioStreamer.start()

VARIABLES
  loops,         \* each receive-loop thread's position, and the socket it receives on
  stopper,       \* the thread inside stop(): its position and the method called
  sending,       \* the thread inside send(): its position and its datagram
  inSend,        \* each of several threads inside send(): its position and datagram
  lockers,       \* each thread inside a "with self._lock": method, locks held, call made
  updating       \* the thread inside update_target(): its position and its arguments

VARIABLES
  codec,         \* the decoder object: its class and its fields
  codecOp        \* the codec call that made the last step: its input and outcome

VARIABLES
  app,           \* AudioStreamingApp: is_streaming, and which components it holds
  capture,       \* the AudioCapture object's fields
  requested      \* the volume the last set_volume() was called with, in hundredths

udpVars ==
  <<sender, receiver, streamer, sockets, threads, wire, arrived, delivered,
    session_sends, lastOp>>

playVars == <<playback, audio_queue, outdata, producer, playOp>>

\* What a step of the transport leaves alone, and what a step of the playback does.
ioVars == <<loops, stopper, sending, inSend, lockers, updating>>

codecVars == <<codec, codecOp>>

appVars == <<app, capture, requested>>

nonUdpVars == <<playVars, callers, ioVars, codecVars, appVars>>

nonPlayVars == <<udpVars, callers, ioVars, codecVars, appVars>>

nonCodecVars == <<udpVars, playVars, callers, ioVars, appVars>>

vars == <<udpVars, playVars, callers, ioVars, codecVars, appVars>>

\* Python's None, for a socket or thread handle.
None == 0

\* The handle of a socket object that has been closed: not None, and no
\* open socket of the process.
Closed == 0 - 1

\* _last_sequence = -1: no datagram seen yet. -1 is the only negative value the
\* field ever holds, so "self._last_sequence >= 0" is "it is not this value".
NoSequence == <<>>

\* The handle of a newly created socket or thread: the first one not in use.
NewHandle(inUse) ==
  CHOOSE h \in 1..(Cardinality(inUse) + 1) : h \notin inUse /\ \A g \in 1..(h - 1) : g \in inUse

\* `running` is the _running flag of the object called, as the call found it.
Op(name, running, result) == [op |-> name, running |-> running, result |-> result]

\* ------------------------------------------------------------- wire format

\* The header packed with '<IQ': each field least significant byte first.
Pack_little_endian(sequence, timestamp) ==
  LET lsb(b) == [i \in 1..Len(b) |-> b[Len(b) + 1 - i]]
  IN  lsb(BytesOf(sequence)) \o lsb(BytesOf(timestamp))

\* header = struct.pack('!IQ', sequence, timestamp); a u32 then a u64.
Pack(sequence, timestamp) == BytesOf(sequence) \o BytesOf(timestamp)

\* sequence, timestamp = struct.unpack('!IQ', data[:HEADER_SIZE]);
\* audio_data = data[HEADER_SIZE:]
Unpack(data) ==
  LET header == SubSeq(data, 1, HEADER_SIZE)
  IN  [sequence   |-> OfBytes(SubSeq(header, 1, 4)),
       timestamp  |-> OfBytes(SubSeq(header, 5, HEADER_SIZE)),
       audio_data |-> SubSeq(data, HEADER_SIZE + 1, Len(data))]

\* A 32-bit value as the unbounded Python int it is before "% (2**32)".
Widen(w) == <<0>> \o w

\* ---------------------------------------------------------------- UDPSender

\* An increment that stops at 2^32 - 1 instead of wrapping to 0.
NextSequence_saturating(sequence) ==
  IF sequence = U32Max THEN U32Max
  ELSE Mod2_32(WAdd(Widen(sequence), PyInt(1)))

\* self._sequence = (self._sequence + 1) % (2**32)
NextSequence(sequence) == Mod2_32(WAdd(Widen(sequence), PyInt(1)))

\* start() that also sets the two counters back to 0.
SenderStart_resets_stats(s, socks, fail) ==
  IF s.running THEN [sender |-> s, sockets |-> socks, result |-> "noop"]
  ELSE IF fail = "socket" THEN [sender |-> s, sockets |-> socks, result |-> "raised"]
  ELSE LET new == NewHandle(socks)
       IN  [sender |-> [s EXCEPT !.socket = new, !.running = TRUE,
                                  !.sequence = U32(0),
                                  !.packets_sent = PyInt(0),
                                  !.bytes_sent = PyInt(0)],
            sockets |-> socks \cup {new}, result |-> "started"]

\* start() without "self._sequence = 0".
SenderStart_no_reset(s, socks, fail) ==
  IF s.running THEN [sender |-> s, sockets |-> socks, result |-> "noop"]
  ELSE IF fail = "socket" THEN [sender |-> s, sockets |-> socks, result |-> "raised"]
  ELSE LET new == NewHandle(socks)
       IN  [sender |-> [s EXCEPT !.socket = new, !.running = TRUE],
            sockets |-> socks \cup {new}, result |-> "started"]

\* start() without "if self._running: return".
SenderStart_no_guard(s, socks, fail) ==
  IF fail = "socket" THEN [sender |-> s, sockets |-> socks, result |-> "raised"]
  ELSE LET new == NewHandle(socks)
       IN  [sender |-> [s EXCEPT !.socket = new, !.running = TRUE,
                                  !.sequence = U32(0)],
            sockets |-> socks \cup {new}, result |-> "started"]

\* UDPSender.start(), as a function of the object and the open sockets. `fail`
\* is where the call raises: at socket(), or nowhere (setting SO_SNDBUF on the
\* new datagram socket does not fail).
SenderStart(s, socks, fail) ==
  IF s.running THEN [sender |-> s, sockets |-> socks, result |-> "noop"]
  ELSE IF fail = "socket" THEN [sender |-> s, sockets |-> socks, result |-> "raised"]
  ELSE LET new == NewHandle(socks)
       IN  [sender |-> [s EXCEPT !.socket = new, !.running = TRUE,
                                  !.sequence = U32(0)],
            sockets |-> socks \cup {new}, result |-> "started"]

\* stop() calling self._socket.close() without "if self._socket:".
SenderStop_no_guard(s, socks, fail) ==
  IF s.socket \in socks /\ fail = "close"
  THEN [sender  |-> [s EXCEPT !.running = FALSE, !.socket = Closed],
        sockets |-> socks \ {s.socket},
        result  |-> "raised"]
  ELSE [sender  |-> [s EXCEPT !.running = FALSE, !.socket = None],
        sockets |-> socks \ {s.socket},
        result  |-> IF s.socket = None THEN "raised" ELSE "stopped"]

\* UDPSender.stop(). `fail` is where the call raises: at self._socket.close()
\* (an OSError from the system's close, after which the descriptor is released
\* and the object closed, while the field keeps the object), or nowhere.
\* close() of an object that is closed already does nothing.
SenderStop(s, socks, fail) ==
  IF s.socket \in socks /\ fail = "close"
  THEN [sender  |-> [s EXCEPT !.running = FALSE, !.socket = Closed],
        sockets |-> socks \ {s.socket},
        result  |-> "raised"]
  ELSE [sender  |-> [s EXCEPT !.running = FALSE, !.socket = None],
        sockets |-> socks \ {s.socket},
        result  |-> "stopped"]

\* send() with the sequence counter moved before sendto() instead of after it.
SenderSend_increment_first(s, data, now, ok) ==
  IF ~s.running \/ s.socket = None
  THEN [sender |-> s, sent |-> <<>>, result |-> "noop"]
  ELSE LET packet == Pack(s.sequence, now) \o data
           moved  == [s EXCEPT !.sequence = NextSequence(s.sequence)]
       IN  IF ~ok
           THEN [sender |-> moved, sent |-> <<>>, result |-> "send error"]
           ELSE [sender |-> [moved EXCEPT
                   !.packets_sent = WAdd(s.packets_sent, PyInt(1)),
                   !.bytes_sent   = WAdd(s.bytes_sent, PyInt(Len(packet)))],
                 sent   |-> <<[ip |-> s.target_ip, port |-> s.target_port,
                               data |-> packet]>>,
                 result |-> "sent"]

\* send() addressing every datagram to the target the sender was made with.
SenderSend_first_target(s, data, now, ok) ==
  IF ~s.running \/ s.socket = None
  THEN [sender |-> s, sent |-> <<>>, result |-> "noop"]
  ELSE LET packet == Pack(s.sequence, now) \o data
       IN  IF ~ok
           THEN [sender |-> s, sent |-> <<>>, result |-> "send error"]
           ELSE [sender |-> [s EXCEPT
                   !.sequence     = NextSequence(s.sequence),
                   !.packets_sent = WAdd(s.packets_sent, PyInt(1)),
                   !.bytes_sent   = WAdd(s.bytes_sent, PyInt(Len(packet)))],
                 sent   |-> <<[ip |-> "10.0.0.1", port |-> 5001,
                               data |-> packet]>>,
                 result |-> "sent"]

\* UDPSender.send(data). `ok` is whether sendto() succeeds; a failure is caught
\* and printed, after the header was built and before any counter moved.
SenderSend(s, data, now, ok) ==
  IF ~s.running \/ s.socket = None
  THEN [sender |-> s, sent |-> <<>>, result |-> "noop"]
  ELSE LET packet == Pack(s.sequence, now) \o data
       IN  IF ~ok
           THEN [sender |-> s, sent |-> <<>>, result |-> "send error"]
           ELSE [sender |-> [s EXCEPT
                   !.sequence     = NextSequence(s.sequence),
                   !.packets_sent = WAdd(s.packets_sent, PyInt(1)),
                   !.bytes_sent   = WAdd(s.bytes_sent, PyInt(Len(packet)))],
                 sent   |-> <<[ip |-> s.target_ip, port |-> s.target_port,
                               data |-> packet]>>,
                 result |-> "sent"]

\* session_sends after a start() or a send() that ended with `result`.
CountSends(result) ==
  CASE result = "started" -> PyInt(0)
    [] result = "sent"    -> WAdd(session_sends, PyInt(1))
    [] OTHER              -> session_sends

UDPSender_start ==
  \E fail \in {"socket", "none"} :
    LET r == SenderStart(sender, sockets, fail)
    IN  /\ sender' = r.sender
        /\ sockets' = r.sockets
        /\ session_sends' = CountSends(r.result)
        /\ lastOp' = Op("UDPSender.start", sender.running, r.result)
        /\ UNCHANGED <<receiver, streamer, threads, wire, arrived, delivered,
                       nonUdpVars>>

UDPSender_stop ==
  \E fail \in {"close", "none"} :
    LET r == SenderStop(sender, sockets, fail)
    IN  /\ sender' = r.sender
        /\ sockets' = r.sockets
        /\ lastOp' = Op("UDPSender.stop", sender.running, r.result)
        /\ UNCHANGED <<receiver, streamer, threads, wire, arrived, delivered,
                       session_sends, nonUdpVars>>

UDPSender_send(payloads, times) ==
  \E data \in payloads, now \in times, ok \in BOOLEAN :
    LET r == SenderSend(sender, data, now, ok)
    IN  /\ Len(wire) < MaxSend
        /\ sender' = r.sender
        /\ wire' = wire \o r.sent
        /\ session_sends' = CountSends(r.result)
        /\ lastOp' = Op("UDPSender.send", sender.running, r.result)
        /\ UNCHANGED <<receiver, streamer, sockets, threads, arrived, delivered,
                       nonUdpVars>>

UDPSender_update_target(targets) ==
  \E t \in targets :
    /\ sender' = [sender EXCEPT !.target_ip = t.ip, !.target_port = t.port]
    /\ lastOp' = Op("UDPSender.update_target", sender.running, "ok")
    /\ UNCHANGED <<receiver, streamer, sockets, threads, wire, arrived,
                   delivered, session_sends, nonUdpVars>>

\* No thread is inside update_target().
NotUpdating == [pc |-> "idle", ip |-> "", port |-> 0, old |-> [ip |-> "", port |-> 0]]

\* update_target(), line 73: self.target_ip = ip. `old` keeps the target the
\* call found.
UDPSender_update_target_73(targets) ==
  /\ updating.pc = "idle"
  /\ \E t \in targets :
       /\ sender' = [sender EXCEPT !.target_ip = t.ip]
       /\ updating' = [pc |-> "74", ip |-> t.ip, port |-> t.port,
                       old |-> [ip |-> sender.target_ip, port |-> sender.target_port]]
  /\ lastOp' = Op("UDPSender.update_target:73", sender.running, "ip set")
  /\ UNCHANGED <<receiver, streamer, sockets, threads, wire, arrived, delivered,
                 session_sends, playVars, callers, codecVars, appVars, loops,
                 stopper, sending, inSend, lockers>>

\* update_target(), line 74: self.target_port = port, and the call returns.
UDPSender_update_target_74 ==
  /\ updating.pc = "74"
  /\ sender' = [sender EXCEPT !.target_port = updating.port]
  /\ updating' = NotUpdating
  /\ lastOp' = Op("UDPSender.update_target", sender.running, "ok")
  /\ UNCHANGED <<receiver, streamer, sockets, threads, wire, arrived, delivered,
                 session_sends, playVars, callers, codecVars, appVars, loops,
                 stopper, sending, inSend, lockers>>

\* -------------------------------------------------------------- UDPReceiver

\* Expected with the increment left out.
Expected_no_increment(last_sequence) == last_sequence

\* expected = (self._last_sequence + 1) % (2**32)
Expected(last_sequence) == Mod2_32(WAdd(Widen(last_sequence), PyInt(1)))

\* The gap counted from the last sequence instead of the expected one.
Gap_from_last(sequence, expected) == WSub(sequence, WSub(expected, U32(1)))

\* The gap taken as a distance: lost = abs(sequence - expected), the shorter way
\* round.
Gap_distance(sequence, expected) ==
  IF WLeq(WSub(sequence, expected), WSub(expected, sequence))
  THEN WSub(sequence, expected)
  ELSE WSub(expected, sequence)

\* The gap with both ends counted: lost = (sequence - expected + 1) % (2**32).
Gap_inclusive(sequence, expected) ==
  Mod2_32(WAdd(Widen(WSub(sequence, expected)), PyInt(1)))

\* lost = (sequence - expected) % (2**32)
Gap(sequence, expected) == WSub(sequence, expected)

\* "if lost <= 1000" in place of "if lost < 1000".
Reasonable_inclusive(lost) == WSmall(lost) /\ Last(lost) <= REASONABLE_GAP

\* if lost < 1000
Reasonable(lost) == WSmall(lost) /\ Last(lost) < REASONABLE_GAP

\* What "Track packet loss" adds to _packets_lost for a datagram carrying
\* `sequence` when the field _last_sequence holds `last_sequence`.
Lost(last_sequence, sequence) ==
  IF last_sequence # NoSequence
  THEN LET expected == Expected(last_sequence)
       IN  IF sequence # expected
           THEN LET lost == Gap(sequence, expected)
                IN  IF Reasonable(lost) THEN WToNat(lost) ELSE 0
           ELSE 0
  ELSE 0

\* UDPReceiver.start(). `fail` is where the call raises: at socket(), at
\* bind() (the port is in use), or nowhere. A handle that is overwritten drops
\* the last reference to its socket, which closes it.
ReceiverStart(r, socks, thrs, fail) ==
  IF r.running
  THEN [receiver |-> r, sockets |-> socks, threads |-> thrs, result |-> "noop"]
  ELSE IF fail = "socket"
  THEN [receiver |-> r, sockets |-> socks, threads |-> thrs, result |-> "raised"]
  ELSE LET new  == NewHandle(socks)
           open == (socks \ {r.socket}) \cup {new}
           t    == NewHandle(thrs)
       IN  IF fail = "bind"
           THEN [receiver |-> [r EXCEPT !.socket = new], sockets |-> open,
                 threads |-> thrs, result |-> "raised"]
           ELSE [receiver |-> [r EXCEPT !.socket = new, !.running = TRUE,
                                        !.thread = t],
                 sockets |-> open, threads |-> thrs \cup {t},
                 result |-> "started"]

\* UDPReceiver.stop(). The loop thread is between two iterations, in a
\* recvfrom() that returns within its 0.5 s timeout; it then reads _running,
\* leaves the loop and ends before join(timeout=1.0) gives up.
ReceiverStop(r, socks, thrs) ==
  [receiver |-> [r EXCEPT !.running = FALSE, !.thread = None, !.socket = None],
   sockets  |-> socks \ {r.socket},
   threads  |-> thrs \ {r.thread},
   result   |-> "stopped"]

\* The iteration keeping the highest sequence seen: _last_sequence moves only
\* forward.
ReceiverReceive_keeps_highest(r, data) ==
  IF Len(data) < HEADER_SIZE
  THEN [receiver |-> r, calls |-> <<>>, result |-> "short"]
  ELSE LET u == Unpack(data)
       IN  [receiver |-> [r EXCEPT
              !.packets_lost     = @ + Lost(r.last_sequence, u.sequence),
              !.last_sequence    = IF \/ r.last_sequence = NoSequence
                                      \/ WLeq(r.last_sequence, u.sequence)
                                   THEN u.sequence
                                   ELSE r.last_sequence,
              !.packets_received = @ + 1,
              !.bytes_received   = @ + Len(data)],
            calls  |-> IF r.callback THEN <<<<u.audio_data, u.sequence>>>> ELSE <<>>,
            result |-> "received"]

\* The iteration adding len(audio_data) to _bytes_received, not len(data).
ReceiverReceive_counts_payload(r, data) ==
  IF Len(data) < HEADER_SIZE
  THEN [receiver |-> r, calls |-> <<>>, result |-> "short"]
  ELSE LET u == Unpack(data)
       IN  [receiver |-> [r EXCEPT
              !.packets_lost     = @ + Lost(r.last_sequence, u.sequence),
              !.last_sequence    = u.sequence,
              !.packets_received = @ + 1,
              !.bytes_received   = @ + Len(u.audio_data)],
            calls  |-> IF r.callback THEN <<<<u.audio_data, u.sequence>>>> ELSE <<>>,
            result |-> "received"]

\* The iteration with "len(data) <= HEADER_SIZE" as the test for dropping.
ReceiverReceive_needs_payload(r, data) ==
  IF Len(data) <= HEADER_SIZE
  THEN [receiver |-> r, calls |-> <<>>, result |-> "short"]
  ELSE LET u == Unpack(data)
       IN  [receiver |-> [r EXCEPT
              !.packets_lost     = @ + Lost(r.last_sequence, u.sequence),
              !.last_sequence    = u.sequence,
              !.packets_received = @ + 1,
              !.bytes_received   = @ + Len(data)],
            calls  |-> IF r.callback THEN <<<<u.audio_data, u.sequence>>>> ELSE <<>>,
            result |-> "received"]

\* One iteration of _receive_loop in which recvfrom() returned `data`.
ReceiverReceive(r, data) ==
  IF Len(data) < HEADER_SIZE
  THEN [receiver |-> r, calls |-> <<>>, result |-> "short"]
  ELSE LET u == Unpack(data)
       IN  [receiver |-> [r EXCEPT
              !.packets_lost     = @ + Lost(r.last_sequence, u.sequence),
              !.last_sequence    = u.sequence,
              !.packets_received = @ + 1,
              !.bytes_received   = @ + Len(data)],
            calls  |-> IF r.callback THEN <<<<u.audio_data, u.sequence>>>> ELSE <<>>,
            result |-> "received"]

UDPReceiver_start ==
  \E fail \in {"socket", "bind", "none"} :
    LET r == ReceiverStart(receiver, sockets, threads, fail)
    IN  /\ receiver' = r.receiver
        /\ sockets' = r.sockets
        /\ threads' = r.threads
        /\ lastOp' = Op("UDPReceiver.start", receiver.running, r.result)
        /\ UNCHANGED <<sender, streamer, wire, arrived, delivered, session_sends,
                       nonUdpVars>>

UDPReceiver_stop ==
  LET r == ReceiverStop(receiver, sockets, threads)
  IN  /\ receiver' = r.receiver
      /\ sockets' = r.sockets
      /\ threads' = r.threads
      /\ lastOp' = Op("UDPReceiver.stop", receiver.running, r.result)
      /\ UNCHANGED <<sender, streamer, wire, arrived, delivered, session_sends,
                     nonUdpVars>>

\* The loop thread's step: "while self._running", recvfrom(), the rest of the
\* body. A timeout or a socket error changes nothing and is left as stuttering.
UDPReceiver_receive_loop(inputs) ==
  /\ receiver.running
  /\ receiver.thread \in threads
  /\ Len(arrived) < MaxRecv
  /\ \E data \in inputs :
       LET r == ReceiverReceive(receiver, data)
       IN  /\ receiver' = r.receiver
           /\ arrived' = Append(arrived, data)
           /\ delivered' = delivered \o r.calls
           /\ lastOp' = Op("UDPReceiver._receive_loop", receiver.running, r.result)
           /\ UNCHANGED <<sender, streamer, sockets, threads, wire, session_sends,
                          nonUdpVars>>

\* ------------------------------------------------------------ AudioStreamer

\* AudioStreamer.start(): sender.start(); receiver.start(); _running = True.
\* An exception of either call leaves start() at that line.
AudioStreamer_start ==
  \E sfail \in {"socket", "none"}, rfail \in {"socket", "bind", "none"} :
    LET s == SenderStart(sender, sockets, sfail)
        r == ReceiverStart(receiver, s.sockets, threads, rfail)
    IN  /\ sender' = s.sender
        /\ session_sends' = CountSends(s.result)
        /\ IF s.result = "raised"
           THEN /\ UNCHANGED <<receiver, threads, streamer>>
                /\ sockets' = s.sockets
                /\ lastOp' = Op("AudioStreamer.start", streamer.running, "raised")
           ELSE /\ receiver' = r.receiver
                /\ sockets' = r.sockets
                /\ threads' = r.threads
                /\ IF r.result = "raised"
                   THEN /\ UNCHANGED streamer
                        /\ lastOp' = Op("AudioStreamer.start", streamer.running, "raised")
                   ELSE /\ streamer' = [streamer EXCEPT !.running = TRUE]
                        /\ lastOp' = Op("AudioStreamer.start", streamer.running, "returned")
        /\ UNCHANGED <<wire, arrived, delivered,
                       nonUdpVars>>

\* The threads that may call AudioStreamer.start() at the same time.
Callers == {1, 2}

\* AudioStreamer.start() taken line by line by calling thread t, so that two
\* calls interleave. Line 198: self.sender.start(), atomic under the sender's lock.
AudioStreamer_start_198(t) ==
  \E fail \in {"socket", "none"} :
    LET s == SenderStart(sender, sockets, fail)
    IN  /\ callers[t] = "idle"
        /\ sender' = s.sender
        /\ sockets' = s.sockets
        /\ session_sends' = CountSends(s.result)
        /\ IF s.result = "raised"
           THEN /\ UNCHANGED callers
                /\ lastOp' = Op("AudioStreamer.start", streamer.running, "raised")
           ELSE /\ callers' = [callers EXCEPT ![t] = "199"]
                /\ lastOp' = Op("AudioStreamer.start:198", streamer.running, s.result)
        /\ UNCHANGED <<receiver, streamer, threads, wire, arrived, delivered,
                       playVars, ioVars, codecVars, appVars>>

\* Line 199: self.receiver.start(), atomic under the receiver's lock.
AudioStreamer_start_199(t) ==
  \E fail \in {"socket", "bind", "none"} :
    LET r == ReceiverStart(receiver, sockets, threads, fail)
    IN  /\ callers[t] = "199"
        /\ receiver' = r.receiver
        /\ sockets' = r.sockets
        /\ threads' = r.threads
        /\ IF r.result = "raised"
           THEN /\ callers' = [callers EXCEPT ![t] = "idle"]
                /\ lastOp' = Op("AudioStreamer.start", streamer.running, "raised")
           ELSE /\ callers' = [callers EXCEPT ![t] = "200"]
                /\ lastOp' = Op("AudioStreamer.start:199", streamer.running, r.result)
        /\ UNCHANGED <<sender, streamer, wire, arrived, delivered,
                       session_sends, playVars, ioVars, codecVars, appVars>>

\* Line 200: self._running = True, and start() returns.
AudioStreamer_start_200(t) ==
  /\ callers[t] = "200"
  /\ streamer' = [streamer EXCEPT !.running = TRUE]
  /\ callers' = [callers EXCEPT ![t] = "idle"]
  /\ lastOp' = Op("AudioStreamer.start", streamer.running, "returned")
  /\ UNCHANGED <<sender, receiver, sockets, threads, wire, arrived, delivered,
                 session_sends, playVars, ioVars, codecVars, appVars>>

\* AudioStreamer.stop(): _running = False; sender.stop(); receiver.stop().
\* An exception of sender.stop() leaves the method at line 205.
AudioStreamer_stop ==
  \E fail \in {"close", "none"} :
    LET s == SenderStop(sender, sockets, fail)
        r == IF s.result = "raised"
             THEN [receiver |-> receiver, sockets |-> s.sockets,
                   threads |-> threads]
             ELSE ReceiverStop(receiver, s.sockets, threads)
    IN  /\ streamer' = [streamer EXCEPT !.running = FALSE]
        /\ sender' = s.sender
        /\ receiver' = r.receiver
        /\ sockets' = r.sockets
        /\ threads' = r.threads
        /\ lastOp' = Op("AudioStreamer.stop", streamer.running, s.result)
        /\ UNCHANGED <<wire, arrived, delivered, session_sends,
                       nonUdpVars>>

\* AudioStreamer.send(data): self.sender.send(data).
AudioStreamer_send(payloads, times) ==
  \E data \in payloads, now \in times, ok \in BOOLEAN :
    LET r == SenderSend(sender, data, now, ok)
    IN  /\ Len(wire) < MaxSend
        /\ sender' = r.sender
        /\ wire' = wire \o r.sent
        /\ session_sends' = CountSends(r.result)
        /\ lastOp' = Op("AudioStreamer.send", streamer.running, r.result)
        /\ UNCHANGED <<receiver, streamer, sockets, threads, arrived, delivered,
                       nonUdpVars>>

\* AudioStreamer.update_target(ip, port): self.sender.update_target(ip, port).
AudioStreamer_update_target(targets) ==
  \E t \in targets :
    /\ sender' = [sender EXCEPT !.target_ip = t.ip, !.target_port = t.port]
    /\ lastOp' = Op("AudioStreamer.update_target", streamer.running, "ok")
    /\ UNCHANGED <<receiver, streamer, sockets, threads, wire, arrived,
                   delivered, session_sends, nonUdpVars>>

\* ------------------------------------------------------------ AudioPlayback

\* A numpy int16 array: its number of dimensions and its samples, row by row
\* (a 2-D array has Channels samples in each row).
Array(ndim, samples) == [ndim |-> ndim, samples |-> samples]

Zeros(n) == [i \in 1..n |-> 0]

\* The volume is kept in hundredths: 100 is 1.0.
\* set_volume() as min(1.0, volume): without the lower limit.
Clamp_upper_only(volume) == IF volume < 100 THEN volume ELSE 100

\* self.volume = max(0.0, min(1.0, volume))
Clamp(volume) ==
  LET least == IF volume < 100 THEN volume ELSE 100
  IN  IF least > 0 THEN least ELSE 0

\* audio_data.astype(np.float32) / 32767.0 * self.volume, elementwise. A value
\* v of the result stands for v / (32767 * 100).
Scaled(samples, volume) == [i \in 1..Len(samples) |-> samples[i] * volume]

\* The callback writing the frame as it was queued, without "* self.volume".
Output_full_volume(audio_data, frames, volume) ==
  LET float_data == Scaled(audio_data.samples, 100)
      rows       == Len(float_data) \div Channels
  IN  IF rows >= frames
      THEN SubSeq(float_data, 1, frames * Channels)
      ELSE SubSeq(float_data, 1, rows * Channels) \o Zeros((frames - rows) * Channels)

\* What _audio_callback writes to outdata (frames rows of Channels values) when
\* get_nowait() returned audio_data.
Output(audio_data, frames, volume) ==
  LET float_data == Scaled(audio_data.samples, volume)
      \* a 1-D array is reshaped to (-1, channels); len() is then the rows
      rows       == Len(float_data) \div Channels
  IN  IF rows >= frames
      THEN SubSeq(float_data, 1, frames * Channels)
      ELSE SubSeq(float_data, 1, rows * Channels) \o Zeros((frames - rows) * Channels)

\* queue.Queue(maxsize): full when maxsize > 0 and that many items are queued.
QueueFull(queue, maxsize) == maxsize > 0 /\ Len(queue) >= maxsize

\* The queue made one frame larger than twice the buffer size.
MaxSize_one_more(p) == p.buffer_size * 2 + 1

\* self._audio_queue = queue.Queue(maxsize=buffer_size * 2)
MaxSize(p) == p.buffer_size * 2

\* get_nowait() taking the newest frame instead of the oldest.
Evicted_newest(queue) == SubSeq(queue, 1, Len(queue) - 1)

\* What get_nowait() leaves in a queue that is not empty: all but the oldest.
Evicted(queue) == Tail(queue)

PlayOp(name, result) == [op |-> name, result |-> result]

Idle == [pc |-> "idle", audio_data |-> Array(2, <<>>), at_call |-> <<>>,
         interleaved |-> FALSE]

\* The producer's record after another thread took frames out of the queue.
Disturbed(pr) == IF pr.pc = "idle" THEN pr ELSE [pr EXCEPT !.interleaved = TRUE]

\* AudioPlayback.start(). `fail` is where it raises: in sd.OutputStream(), in
\* self._stream.start(), or nowhere.
AudioPlayback_start ==
  \E fail \in {"open", "start", "none"} :
    /\ IF playback.running
       THEN /\ UNCHANGED playback
            /\ playOp' = PlayOp("AudioPlayback.start", "noop")
       ELSE IF fail = "open"
       THEN /\ UNCHANGED playback
            /\ playOp' = PlayOp("AudioPlayback.start", "raised")
       ELSE IF fail = "start"
       THEN /\ playback' = [playback EXCEPT !.stream = "open"]
            /\ playOp' = PlayOp("AudioPlayback.start", "raised")
       ELSE /\ playback' = [playback EXCEPT !.stream = "active", !.running = TRUE]
            /\ playOp' = PlayOp("AudioPlayback.start", "started")
    /\ UNCHANGED <<audio_queue, outdata, producer, nonPlayVars>>

\* AudioPlayback.stop(): the queue is emptied only when a stream exists.
AudioPlayback_stop ==
  /\ playback' = [playback EXCEPT !.running = FALSE, !.stream = "None"]
  /\ IF playback.stream # "None"
     THEN /\ audio_queue' = <<>>
          /\ producer' = IF audio_queue # <<>> THEN Disturbed(producer) ELSE producer
     ELSE UNCHANGED <<audio_queue, producer>>
  /\ playOp' = PlayOp("AudioPlayback.stop", "stopped")
  /\ UNCHANGED <<outdata, nonPlayVars>>

\* AudioPlayback.set_volume(volume)
AudioPlayback_set_volume(volumes) ==
  \E volume \in volumes :
    /\ playback' = [playback EXCEPT !.volume = Clamp(volume)]
    /\ requested' = volume
    /\ playOp' = PlayOp("AudioPlayback.set_volume", "ok")
    /\ UNCHANGED <<audio_queue, outdata, producer, udpVars, callers, ioVars,
                   codecVars, app, capture>>

\* The except branch without outdata.fill(0).
Silence_untouched(buffer) == buffer

\* outdata.fill(0)
Silence(buffer) == [i \in 1..Len(buffer) |-> 0]

\* AudioPlayback._audio_callback(outdata, frames, ...), called by the output
\* stream while it is started, with frames = blocksize = chunk_size.
AudioPlayback_audio_callback ==
  /\ playback.stream = "active"
  /\ IF audio_queue # <<>>
     THEN /\ outdata' = Output(Head(audio_queue), playback.chunk_size, playback.volume)
          /\ audio_queue' = Tail(audio_queue)
          /\ producer' = Disturbed(producer)
          /\ playOp' = PlayOp("AudioPlayback._audio_callback", "played")
     ELSE /\ outdata' = Silence(outdata)
          /\ UNCHANGED <<audio_queue, producer>>
          /\ playOp' = PlayOp("AudioPlayback._audio_callback", "silence")
  /\ UNCHANGED <<playback, nonPlayVars>>

\* AudioPlayback.play(audio_data), line 104: "if not self._running: return".
AudioPlayback_play(inputs) ==
  \E audio_data \in inputs :
    /\ producer.pc = "idle"
    /\ IF ~playback.running
       THEN /\ UNCHANGED producer
            /\ playOp' = PlayOp("AudioPlayback.play", "noop")
       ELSE /\ producer' = [pc |-> "put", audio_data |-> audio_data,
                            at_call |-> audio_queue, interleaved |-> FALSE]
            /\ playOp' = PlayOp("AudioPlayback.play", "called")
    /\ UNCHANGED <<playback, audio_queue, outdata, nonPlayVars>>

\* play(), line 108: self._audio_queue.put_nowait(audio_data)
AudioPlayback_play_put ==
  /\ producer.pc = "put"
  /\ IF QueueFull(audio_queue, MaxSize(playback))
     THEN /\ producer' = [producer EXCEPT !.pc = "evict"]
          /\ UNCHANGED audio_queue
          /\ playOp' = PlayOp("AudioPlayback.play", "full")
     ELSE /\ audio_queue' = Append(audio_queue, producer.audio_data)
          /\ producer' = [producer EXCEPT !.pc = "idle"]
          /\ playOp' = PlayOp("AudioPlayback.play", "queued")
  /\ UNCHANGED <<playback, outdata, nonPlayVars>>

\* play(), line 112: self._audio_queue.get_nowait(); queue.Empty is passed over.
AudioPlayback_play_evict ==
  /\ producer.pc = "evict"
  /\ IF audio_queue = <<>>
     THEN /\ producer' = [producer EXCEPT !.pc = "idle"]
          /\ UNCHANGED audio_queue
          /\ playOp' = PlayOp("AudioPlayback.play", "dropped")
     ELSE /\ audio_queue' = Evicted(audio_queue)
          /\ producer' = [producer EXCEPT !.pc = "reput"]
          /\ playOp' = PlayOp("AudioPlayback.play", "evicted")
  /\ UNCHANGED <<playback, outdata, nonPlayVars>>

\* play(), line 113: self._audio_queue.put_nowait(audio_data); a queue.Full here
\* is not caught by "except queue.Empty" and leaves play().
AudioPlayback_play_reput ==
  /\ producer.pc = "reput"
  /\ IF QueueFull(audio_queue, MaxSize(playback))
     THEN /\ UNCHANGED audio_queue
          /\ playOp' = PlayOp("AudioPlayback.play", "raised")
     ELSE /\ audio_queue' = Append(audio_queue, producer.audio_data)
          /\ playOp' = PlayOp("AudioPlayback.play", "replaced")
  /\ producer' = [producer EXCEPT !.pc = "idle"]
  /\ UNCHANGED <<playback, outdata, nonPlayVars>>

\* -------------------------------------------------------------- the codec

\* What a call that raised returned: nothing.
NoFrame == Array(0, <<>>)

\* No decoder constructed yet (self.decoder = None in the application).
NoCodec == [class |-> "None", channels |-> 0, frame_size |-> 0, decoder |-> FALSE]

CodecOp(name, data, result, frame) ==
  [op |-> name, data |-> data, result |-> result, frame |-> frame]

\* One int16 of np.frombuffer(..., dtype=np.int16): two bytes, low byte first,
\* two's complement.
Int16(lo, hi) ==
  LET u == lo + 256 * hi
  IN  IF u >= 32768 THEN u - 65536 ELSE u

\* np.frombuffer(data, dtype=np.int16): a 1-D array of Len(data) / 2 values;
\* ValueError when the length is not a multiple of the element size.
FromBuffer(data) ==
  IF Len(data) % 2 # 0
  THEN [result |-> "raised", frame |-> NoFrame]
  ELSE [result |-> "returned",
        frame  |-> Array(1, [i \in 1..(Len(data) \div 2) |->
                               Int16(data[2 * i - 1], data[2 * i])])]

\* audio.reshape(-1, channels): ValueError when the size is not a multiple of
\* channels.
Reshape(frame, channels) ==
  IF Len(frame.samples) % channels # 0
  THEN [result |-> "raised", frame |-> NoFrame]
  ELSE [result |-> "returned", frame |-> Array(2, frame.samples)]

\* One int16 as tobytes() writes it: two bytes, low byte first, two's
\* complement.
Bytes16(v) ==
  LET u == IF v < 0 THEN v + 65536 ELSE v
  IN  <<u % 256, u \div 256>>

\* encode() writing each sample high byte first.
SimpleEncode_high_byte_first(frame) ==
  [i \in 1..(2 * Len(frame.samples)) |->
     Bytes16(frame.samples[(i + 1) \div 2])[IF i % 2 = 1 THEN 2 ELSE 1]]

\* SimpleCodec.encode(audio_data) for an int16 array: audio_data.tobytes(),
\* the samples row by row, two bytes each.
SimpleEncode(frame) ==
  [i \in 1..(2 * Len(frame.samples)) |->
     Bytes16(frame.samples[(i + 1) \div 2])[IF i % 2 = 1 THEN 1 ELSE 2]]

\* np.zeros((self.frame_size, self.channels), dtype=np.int16)
ZeroFrame(c) == Array(2, Zeros(c.frame_size * c.channels))

\* SimpleCodec.decode(data)
SimpleDecode(c, data) ==
  LET audio == FromBuffer(data)
  IN  IF audio.result = "raised" THEN audio ELSE Reshape(audio.frame, c.channels)

\* What opuslib's decoder returns for a packet it accepts: frame_size samples
\* per channel (their values stand for the decoded sound).
Pcm(c) == Array(1, [i \in 1..(c.frame_size * c.channels) |-> i])

\* OpusDecoder.decode(encoded_data). `opus` is what self._decoder.decode() does
\* with the payload: "pcm" (it decodes it) or "error" (it raises).
OpusDecode(c, data, opus) ==
  IF ~c.decoder THEN FromBuffer(data)
  ELSE IF opus = "pcm" /\ Reshape(Pcm(c), c.channels).result = "returned"
  THEN Reshape(Pcm(c), c.channels)
  ELSE LET raw == FromBuffer(data)
       IN  IF raw.result = "returned" THEN raw
           ELSE [result |-> "returned", frame |-> ZeroFrame(c)]

\* SimpleCodec(sample_rate, channels, frame_size), as get_codec() constructs it
\* when Opus is not available.
SimpleCodec_init(channelses) ==
  \E channels \in channelses :
    /\ codec' = [class |-> "SimpleCodec", channels |-> channels,
                 frame_size |-> ChunkSize, decoder |-> FALSE]
    /\ codecOp' = CodecOp("SimpleCodec.__init__", <<>>, "returned", NoFrame)
    /\ UNCHANGED nonCodecVars

\* OpusDecoder(sample_rate, channels, frame_size): _decoder is None when
\* opuslib is missing or opuslib.Decoder() raised.
OpusDecoder_init(channelses) ==
  \E channels \in channelses, decoder \in BOOLEAN :
    /\ codec' = [class |-> "OpusDecoder", channels |-> channels,
                 frame_size |-> ChunkSize, decoder |-> decoder]
    /\ codecOp' = CodecOp("OpusDecoder.__init__", <<>>, "returned", NoFrame)
    /\ UNCHANGED nonCodecVars

\* SimpleCodec.encode(audio_data)
SimpleCodec_encode(frames) ==
  /\ codec.class = "SimpleCodec"
  /\ \E audio_data \in frames :
       codecOp' = CodecOp("SimpleCodec.encode", SimpleEncode(audio_data),
                          "returned", audio_data)
  /\ UNCHANGED <<codec, nonCodecVars>>

SimpleCodec_decode(payloads) ==
  /\ codec.class = "SimpleCodec"
  /\ \E data \in payloads :
       LET r == SimpleDecode(codec, data)
       IN  codecOp' = CodecOp("SimpleCodec.decode", data, r.result, r.frame)
  /\ UNCHANGED <<codec, nonCodecVars>>

OpusDecoder_decode(payloads) ==
  /\ codec.class = "OpusDecoder"
  /\ \E data \in payloads, opus \in {"pcm", "error"} :
       LET r == OpusDecode(codec, data, opus)
       IN  codecOp' = CodecOp("OpusDecoder.decode", data, r.result, r.frame)
  /\ UNCHANGED <<codec, nonCodecVars>>

\* ------------------------------------------- the threads of the transport

\* No loop thread with this handle.
NoLoop == [pc |-> "none", sock |-> None]

\* No thread is inside stop(); no thread is inside send().
NotStopping == [pc |-> "idle", api |-> "none"]

NotSending == [pc |-> "idle", packet |-> <<>>]

\* The lines of the program that touch `stopper`, `loops` and `sending` leave
\* these alone.
udpThreadFrame == <<playVars, callers, codecVars, appVars, inSend, lockers, updating>>

\* UDPReceiver.start() by a caller that is not inside stop(). The thread it
\* starts is at the top of _receive_loop.
UDPReceiver_start_thread ==
  /\ stopper.pc = "idle"
  /\ Cardinality(threads) < MaxThreads
  /\ \E fail \in {"bind", "none"} :
       LET r == ReceiverStart(receiver, sockets, threads, fail)
       IN  /\ receiver' = r.receiver
           /\ sockets' = r.sockets
           /\ threads' = r.threads
           /\ loops' = IF r.result = "started"
                       THEN [loops EXCEPT ![r.receiver.thread] =
                                            [pc |-> "while", sock |-> None]]
                       ELSE loops
           /\ lastOp' = Op("UDPReceiver.start", receiver.running, r.result)
  /\ UNCHANGED <<sender, streamer, wire, arrived, delivered, session_sends,
                 stopper, sending, udpThreadFrame>>

\* _receive_loop, line 139: "while self._running". The thread goes into
\* recvfrom() on the socket the field holds now, or leaves the loop and ends.
UDPReceiver_receive_loop_139(t) ==
  /\ loops[t].pc = "while"
  /\ IF receiver.running
     THEN /\ loops' = [loops EXCEPT ![t] = [pc |-> "recvfrom", sock |-> receiver.socket]]
          /\ UNCHANGED threads
          /\ lastOp' = Op("UDPReceiver._receive_loop:139", TRUE, "running")
     ELSE /\ loops' = [loops EXCEPT ![t] = NoLoop]
          /\ threads' = threads \ {t}
          /\ lastOp' = Op("UDPReceiver._receive_loop:139", FALSE, "ended")
  /\ UNCHANGED <<sender, receiver, streamer, sockets, wire, arrived, delivered,
                 session_sends, stopper, sending, udpThreadFrame>>

\* _receive_loop, lines 141-165: recvfrom() returns. It raises socket.timeout
\* after 0.5 s, or an error when the socket is closed or the field was None
\* (both caught: back to the top); or it returns a datagram, which is counted
\* and, when long enough and a callback is set, handed to the callback.
UDPReceiver_receive_loop_141(t, inputs) ==
  /\ loops[t].pc = "recvfrom"
  /\ \/ /\ loops' = [loops EXCEPT ![t] = [pc |-> "while", sock |-> None]]
        /\ lastOp' = Op("UDPReceiver._receive_loop:141", receiver.running,
                        IF loops[t].sock \in sockets THEN "timeout" ELSE "receive error")
        /\ UNCHANGED <<receiver, arrived, delivered>>
     \/ /\ loops[t].sock \in sockets
        /\ Len(arrived) < MaxRecv
        /\ \E data \in inputs :
             LET r == ReceiverReceive(receiver, data)
             IN  /\ receiver' = r.receiver
                 /\ arrived' = Append(arrived, data)
                 /\ delivered' = delivered \o r.calls
                 /\ loops' = [loops EXCEPT ![t] =
                                [pc   |-> IF r.calls # <<>> THEN "callback" ELSE "while",
                                 sock |-> None]]
                 /\ lastOp' = Op("UDPReceiver._receive_loop:141", receiver.running, r.result)
  /\ UNCHANGED <<sender, streamer, sockets, threads, wire, session_sends,
                 stopper, sending, udpThreadFrame>>

\* _receive_loop, line 165: the callback returns (or raises, which is caught).
UDPReceiver_receive_loop_165(t) ==
  /\ loops[t].pc = "callback"
  /\ loops' = [loops EXCEPT ![t] = [pc |-> "while", sock |-> None]]
  /\ lastOp' = Op("UDPReceiver._receive_loop:165", receiver.running, "callback returned")
  /\ UNCHANGED <<sender, receiver, streamer, sockets, threads, wire, arrived,
                 delivered, session_sends, stopper, sending, udpThreadFrame>>

\* stop() that drops the handle without close(): the socket stays open while a
\* thread inside recvfrom() still refers to it.
ReceiverStopClose_leaves_open(r, socks) ==
  [receiver |-> [r EXCEPT !.socket = None], sockets |-> socks]

\* stop() with the socket closed and the field left as it was.
ReceiverStopClose_keeps_handle(r, socks) ==
  [receiver |-> r, sockets |-> socks \ {r.socket}]

\* UDPReceiver.stop(), lines 130-133: with the lock, close the socket if there
\* is one and set the field to None.
ReceiverStopClose(r, socks) ==
  [receiver |-> [r EXCEPT !.socket = None], sockets |-> socks \ {r.socket}]

\* join(timeout=1.0) returns when the thread has ended, or gives up after 1 s:
\* that is on a thread held in its callback, since recvfrom() returns within
\* its 0.5 s timeout and the other lines of the loop do not wait.
JoinReturns(thread, thrs, lps) ==
  thread \notin thrs \/ lps[thread].pc = "callback"

\* UDPReceiver.stop(), lines 123-124: with the lock, self._running = False.
\* Called directly, or by AudioStreamer.stop() at line 206.
UDPReceiver_stop_123 ==
  /\ stopper.pc \in {"idle", "206"}
  /\ receiver' = [receiver EXCEPT !.running = FALSE]
  /\ stopper' = [pc  |-> "126",
                 api |-> IF stopper.pc = "idle" THEN "UDPReceiver.stop" ELSE stopper.api]
  /\ lastOp' = Op("UDPReceiver.stop:123", receiver.running, "flag cleared")
  /\ UNCHANGED <<sender, streamer, sockets, threads, wire, arrived, delivered,
                 session_sends, loops, sending, udpThreadFrame>>

\* UDPReceiver.stop(), lines 126-128: if self._thread: join(timeout=1.0);
\* self._thread = None.
UDPReceiver_stop_126 ==
  /\ stopper.pc = "126"
  /\ receiver.thread # None => JoinReturns(receiver.thread, threads, loops)
  /\ receiver' = [receiver EXCEPT !.thread = None]
  /\ stopper' = [stopper EXCEPT !.pc = "130"]
  /\ lastOp' = Op("UDPReceiver.stop:126", receiver.running,
                  IF receiver.thread \in threads THEN "join timed out" ELSE "joined")
  /\ UNCHANGED <<sender, streamer, sockets, threads, wire, arrived, delivered,
                 session_sends, loops, sending, udpThreadFrame>>

\* Lines 126-128 in a process whose loop thread may be kept from running for
\* the whole second: join(timeout=1.0) gives up on any thread that has not
\* ended, also one still inside recvfrom().
UDPReceiver_stop_126_late ==
  /\ stopper.pc = "126"
  /\ receiver.thread \in threads => loops[receiver.thread].pc \in {"callback", "recvfrom"}
  /\ receiver' = [receiver EXCEPT !.thread = None]
  /\ stopper' = [stopper EXCEPT !.pc = "130"]
  /\ lastOp' = Op("UDPReceiver.stop:126", receiver.running,
                  IF receiver.thread \in threads THEN "join timed out" ELSE "joined")
  /\ UNCHANGED <<sender, streamer, sockets, threads, wire, arrived, delivered,
                 session_sends, loops, sending, udpThreadFrame>>

\* UDPReceiver.stop(), lines 130-135: the socket is closed, stop() returns.
\* A thread inside recvfrom() on the socket object that was closed holds a
\* closed object from then on, whatever socket is given its number later.
UDPReceiver_stop_130 ==
  /\ stopper.pc = "130"
  /\ LET r == ReceiverStopClose(receiver, sockets)
     IN  /\ receiver' = r.receiver
         /\ sockets' = r.sockets
         /\ loops' = [t \in DOMAIN loops |->
                        IF loops[t].sock \in sockets \ r.sockets
                        THEN [loops[t] EXCEPT !.sock = Closed]
                        ELSE loops[t]]
  /\ stopper' = NotStopping
  /\ lastOp' = Op(stopper.api, receiver.running, "stopped")
  /\ UNCHANGED <<sender, streamer, threads, wire, arrived, delivered,
                 session_sends, sending, udpThreadFrame>>

\* AudioStreamer.stop(), line 204: self._running = False.
AudioStreamer_stop_204 ==
  /\ stopper.pc = "idle"
  /\ streamer' = [streamer EXCEPT !.running = FALSE]
  /\ stopper' = [pc |-> "205", api |-> "AudioStreamer.stop"]
  /\ lastOp' = Op("AudioStreamer.stop:204", streamer.running, "flag cleared")
  /\ UNCHANGED <<sender, receiver, sockets, threads, wire, arrived, delivered,
                 session_sends, loops, sending, udpThreadFrame>>

\* AudioStreamer.stop(), line 205: self.sender.stop(); an exception leaves
\* stop() here.
AudioStreamer_stop_205 ==
  /\ stopper.pc = "205"
  /\ \E fail \in {"close", "none"} :
       LET s == SenderStop(sender, sockets, fail)
       IN  /\ sender' = s.sender
           /\ sockets' = s.sockets
           /\ IF s.result = "raised"
              THEN /\ stopper' = NotStopping
                   /\ lastOp' = Op("AudioStreamer.stop", streamer.running, "raised")
              ELSE /\ stopper' = [stopper EXCEPT !.pc = "206"]
                   /\ lastOp' = Op("AudioStreamer.stop:205", streamer.running, s.result)
  /\ UNCHANGED <<receiver, streamer, threads, wire, arrived, delivered,
                 session_sends, loops, sending, udpThreadFrame>>

\* UDPSender.send(), lines 56-62: the test of _running and _socket, and the
\* datagram built from the sequence counter as it is now.
UDPSender_send_56(payloads, times) ==
  /\ sending.pc = "idle"
  /\ Len(wire) < MaxSend
  /\ \E data \in payloads, now \in times :
       IF ~sender.running \/ sender.socket = None
       THEN /\ UNCHANGED sending
            /\ lastOp' = Op("UDPSender.send", sender.running, "noop")
       ELSE /\ sending' = [pc |-> "sendto", packet |-> Pack(sender.sequence, now) \o data]
            /\ lastOp' = Op("UDPSender.send:56", sender.running, "packed")
  /\ UNCHANGED <<sender, receiver, streamer, sockets, threads, wire, arrived,
                 delivered, session_sends, loops, stopper, udpThreadFrame>>

\* UDPSender.send(), lines 64-69: sendto() on the socket the field holds now
\* (an error when it is None or closed, or when the system refuses: caught),
\* then the sequence counter and the counters.
UDPSender_send_64 ==
  /\ sending.pc = "sendto"
  /\ \E ok \in BOOLEAN :
       IF sender.socket \in sockets /\ ok
       THEN /\ wire' = Append(wire, [ip |-> sender.target_ip, port |-> sender.target_port,
                                     data |-> sending.packet])
            /\ sender' = [sender EXCEPT
                 !.sequence     = NextSequence(sender.sequence),
                 !.packets_sent = WAdd(sender.packets_sent, PyInt(1)),
                 !.bytes_sent   = WAdd(sender.bytes_sent, PyInt(Len(sending.packet)))]
            /\ session_sends' = CountSends("sent")
            /\ lastOp' = Op("UDPSender.send", sender.running, "sent")
       ELSE /\ UNCHANGED <<wire, sender, session_sends>>
            /\ lastOp' = Op("UDPSender.send", sender.running, "send error")
  /\ sending' = NotSending
  /\ UNCHANGED <<receiver, streamer, sockets, threads, arrived, delivered,
                 loops, stopper, udpThreadFrame>>

\* ------------------------------------------- concurrent calls of send()

\* The threads that call start() and stop() of the components at the same time.
LockThreads == {1, 2}

\* A thread outside every "with self._lock" block.
NoLock == [pc |-> "idle", method |-> "none", holds |-> {}, io |-> "none"]

\* The threads that call UDPSender.send() at the same time.
SendThreads == 1..MaxSenders

\* A thread that is not inside send(). `packet` is the datagram it built.
OutsideSend == [pc |-> "idle", packet |-> <<>>]

\* What a step of send() by one of several threads leaves alone.
sendFrame ==
  <<receiver, streamer, sockets, threads, arrived, delivered, loops, stopper,
    sending, lockers, updating, playVars, callers, codecVars, appVars>>

\* send(), line 56, by thread t: the test of _running and _socket. send()
\* takes no lock, so every line below is a step other threads interleave with.
UDPSender_send_test(t) ==
  /\ inSend[t].pc = "idle"
  /\ Len(wire) + Cardinality({u \in SendThreads : inSend[u].pc \in {"61", "64"}})
       < MaxSend
  /\ IF ~sender.running \/ sender.socket = None
     THEN /\ UNCHANGED inSend
          /\ lastOp' = Op("UDPSender.send", sender.running, "noop")
     ELSE /\ inSend' = [inSend EXCEPT ![t].pc = "61"]
          /\ lastOp' = Op("UDPSender.send:56", sender.running, "passed")
  /\ UNCHANGED <<sender, wire, session_sends, sendFrame>>

\* Lines 61-62: the header is packed from self._sequence as it is now.
UDPSender_send_pack(t, payloads, times) ==
  /\ inSend[t].pc = "61"
  /\ \E data \in payloads, now \in times :
       inSend' = [inSend EXCEPT ![t].pc = "64",
                                  ![t].packet = Pack(sender.sequence, now) \o data]
  /\ lastOp' = Op("UDPSender.send:61", sender.running, "packed")
  /\ UNCHANGED <<sender, wire, session_sends, sendFrame>>

\* Line 64: sendto() on the socket the field holds now. An error (the field
\* is None or closed after a stop(), or the system refuses) is caught at 68.
UDPSender_send_sendto(t) ==
  /\ inSend[t].pc = "64"
  /\ \E ok \in BOOLEAN :
       IF sender.socket \in sockets /\ ok
       THEN /\ wire' = Append(wire, [ip |-> sender.target_ip,
                                     port |-> sender.target_port,
                                     data |-> inSend[t].packet])
            /\ session_sends' = CountSends("sent")
            /\ inSend' = [inSend EXCEPT ![t].pc = "65"]
            /\ lastOp' = Op("UDPSender.send:64", sender.running, "sent")
       ELSE /\ UNCHANGED <<wire, session_sends>>
            /\ inSend' = [inSend EXCEPT ![t] = OutsideSend]
            /\ lastOp' = Op("UDPSender.send", sender.running, "send error")
  /\ UNCHANGED <<sender, sendFrame>>

\* Lines 65-67: the sequence counter and the statistics move on from the
\* values the fields hold now. The three lines make no call and are taken as
\* one step.
UDPSender_send_count(t) ==
  /\ inSend[t].pc = "65"
  /\ sender' = [sender EXCEPT
       !.sequence     = NextSequence(sender.sequence),
       !.packets_sent = WAdd(sender.packets_sent, PyInt(1)),
       !.bytes_sent   = WAdd(sender.bytes_sent, PyInt(Len(inSend[t].packet)))]
  /\ inSend' = [inSend EXCEPT ![t] = OutsideSend]
  /\ lastOp' = Op("UDPSender.send", sender.running, "sent")
  /\ UNCHANGED <<wire, session_sends, sendFrame>>

\* ------------------------------------------------------------------ inputs

\* Codec payloads handed to send(): none, and two bytes.
Payloads == {<<>>, <<171, 205>>}

\* int(time.time() * 1000), as an unsigned 64-bit value.
Times == {<<0, 404, 1, 2>>}

\* Addresses update_target() is called with.
Targets == {[ip |-> "10.0.0.2", port |-> 5001], [ip |-> "10.0.0.3", port |-> 6001]}

\* The sequence numbers a datagram reaching the receiver may carry: the ends of
\* the 32-bit range, and the field's last value plus 1 (in order), plus 2 and
\* plus 1000 (gaps of 1 and 999), plus 1001 (a gap of 1000), unchanged (a
\* duplicate), minus 1 (a late one). Before the first datagram: any of the
\* ends, 7 and 999.
Sequences(last_sequence) ==
  {U32(0), U32Max} \cup
  IF last_sequence = NoSequence
  THEN {U32(7), U32(999)}
  ELSE {Mod2_32(WAdd(Widen(last_sequence), PyInt(d))) : d \in {0, 1, 2, 1000, 1001}}
       \cup {WSub(last_sequence, U32(1))}

\* The datagrams recvfrom() may return: a header and a payload, or fewer bytes
\* than a header has.
Datagrams(last_sequence) ==
  {Pack(q, t) \o a : q \in Sequences(last_sequence), t \in Times,
                     a \in Payloads}
  \cup {<<>>, Zeros(HEADER_SIZE - 1)}

\* The arrivals from a peer whose sender is about to use its last sequence
\* numbers: 2^32 - 2 or 2^32 - 1 first, then each time the next or the one after.
NearWrap(last_sequence) ==
  {Pack(q, t) \o <<171, 205>> :
     t \in Times,
     q \in IF last_sequence = NoSequence THEN {WSub(U32Max, U32(1)), U32Max}
           ELSE {Mod2_32(WAdd(Widen(last_sequence), PyInt(d))) : d \in {1, 2}}}

\* The arrivals of a run in which the peer sends in order and nothing is lost.
InOrder(last_sequence) ==
  {Pack(q, t) \o <<171, 205>> :
     t \in Times,
     q \in IF last_sequence = NoSequence THEN {U32(0)}
           ELSE {Expected(last_sequence)}}

\* Decoded frames handed to play(): a 2-D frame one row longer than a chunk and
\* a 1-D frame one row shorter.
Frames(chunk_size) ==
  {Array(2, [i \in 1..((chunk_size + 1) * Channels) |-> 100 + i]),
   Array(1, [i \in 1..((chunk_size - 1) * Channels) |-> 0 - 32768 + i])}

\* A decoded frame of chunk_size rows whose every sample tells the volume that
\* was set when it was handed to play(): 1000 more than that volume.
Stamped(chunk_size, volume) ==
  {Array(2, [i \in 1..(chunk_size * Channels) |-> 1000 + volume])}

\* Arguments of set_volume(), in hundredths: -0.5, 0.5 and 1.5.
Volumes == {0 - 50, 50, 150}

\* ----------------------------------------------------------- specifications

\* UDPSender.__init__
NewSender ==
  [target_ip |-> "10.0.0.1", target_port |-> 5001, socket |-> None,
   running |-> FALSE, sequence |-> U32(0),
   packets_sent |-> PyInt(0), bytes_sent |-> PyInt(0)]

\* A sender that start() has started and that has since sent 2^32 - 2 datagrams
\* with empty payloads: the state one more successful send away from the last
\* sequence number, which no check can reach one send at a time.
LongRunningSender ==
  [NewSender EXCEPT
     !.socket = 1, !.running = TRUE,
     !.sequence = WSub(U32Max, U32(1)),
     !.packets_sent = Widen(WSub(U32Max, U32(1))),
     !.bytes_sent = WSub(<<HEADER_SIZE, 0, 0>>, PyInt(2 * HEADER_SIZE))]

\* UDPReceiver.__init__, with or without a callback.
NewReceiver(callback) ==
  [callback |-> callback, socket |-> None, running |-> FALSE, thread |-> None,
   packets_received |-> 0, bytes_received |-> 0,
   last_sequence |-> NoSequence, packets_lost |-> 0]

\* AudioPlayback.__init__
NewPlayback(buffer_size) ==
  [chunk_size |-> ChunkSize, buffer_size |-> buffer_size, volume |-> 100,
   stream |-> "None", running |-> FALSE]

\* AudioCapture.__init__
NewCapture(use_loopback) ==
  [use_loopback |-> use_loopback, stream |-> "None", pyaudio |-> FALSE,
   running |-> FALSE]

\* AudioStreamingApp.__init__: not streaming, and capture, streamer and playback
\* are None (FALSE here; TRUE when the attribute holds an object).
NewApp ==
  [is_streaming |-> FALSE, capture |-> FALSE, streamer |-> FALSE,
   playback |-> FALSE]

\* The playback as constructed with buffer_size in `sizes`.
InitPlay(sizes) ==
  /\ playback \in {NewPlayback(b) : b \in sizes}
  /\ audio_queue = <<>>
  /\ outdata = Zeros(ChunkSize * Channels)
  /\ producer = Idle
  /\ playOp = PlayOp("AudioPlayback.__init__", "ok")

\* The streamer as AudioStreamer.__init__ leaves it (with `senders` only
\* NewSender), its receiver constructed with or without a callback.
InitUdp(senders, callbacks) ==
  /\ sender \in senders
  /\ sockets = IF sender.socket = None THEN {} ELSE {sender.socket}
  /\ session_sends = Widen(sender.sequence)
  /\ receiver \in {NewReceiver(c) : c \in callbacks}
  /\ streamer = [running |-> FALSE]
  /\ threads = {}
  /\ wire = <<>>
  /\ arrived = <<>>
  /\ delivered = <<>>
  /\ lastOp = Op("__init__", FALSE, "ok")
  /\ callers = [t \in Callers |-> "idle"]
  /\ loops = [t \in 1..MaxThreads |-> NoLoop]
  /\ stopper = NotStopping
  /\ sending = NotSending
  /\ inSend = [t \in SendThreads |-> OutsideSend]
  /\ lockers = [t \in LockThreads |-> NoLock]
  /\ updating = NotUpdating
  /\ codec = NoCodec
  /\ codecOp = CodecOp("__init__", <<>>, "returned", NoFrame)
  /\ app = NewApp
  /\ capture = NewCapture(FALSE)
  /\ requested = 100

\* The sender alone.
NextSender ==
  \/ UDPSender_start
  \/ UDPSender_stop
  \/ UDPSender_send(Payloads, Times)
  \/ UDPSender_update_target(Targets)

InitSender ==
  InitUdp({NewSender, LongRunningSender}, {TRUE}) /\ InitPlay({BufferSize})

SpecSender == InitSender /\ [][NextSender]_vars

\* The receiver alone, fed any datagram.
NextReceiver ==
  \/ UDPReceiver_start
  \/ UDPReceiver_stop
  \/ UDPReceiver_receive_loop(Datagrams(receiver.last_sequence))

InitReceiver == InitUdp({NewSender}, BOOLEAN) /\ InitPlay({BufferSize})

SpecReceiver == InitReceiver /\ [][NextReceiver]_vars

\* The streamer: both directions through AudioStreamer's methods.
Next ==
  \/ AudioStreamer_start
  \/ AudioStreamer_stop
  \/ AudioStreamer_send({<<171, 205>>}, Times)
  \/ AudioStreamer_update_target(Targets)
  \/ UDPReceiver_receive_loop(InOrder(receiver.last_sequence))

Init == InitUdp({NewSender}, {TRUE}) /\ InitPlay({BufferSize})

Spec == Init /\ [][Next]_vars

\* The playback: the receive thread in play(), the device thread in the
\* callback, the caller of start(), stop() and set_volume().
NextPlay ==
  \/ AudioPlayback_start
  \/ AudioPlayback_stop
  \/ AudioPlayback_set_volume(Volumes)
  \/ AudioPlayback_audio_callback
  \/ AudioPlayback_play(Frames(playback.chunk_size))
  \/ AudioPlayback_play_put
  \/ AudioPlayback_play_evict
  \/ AudioPlayback_play_reput

InitPlayback == InitUdp({NewSender}, {TRUE}) /\ InitPlay(1..BufferSize)

\* The playback fed frames that tell the volume of the moment they were
\* pushed, while the volume is changed between the push and the callback.
NextVolume ==
  \/ AudioPlayback_start
  \/ AudioPlayback_stop
  \/ AudioPlayback_set_volume(Volumes)
  \/ AudioPlayback_audio_callback
  \/ AudioPlayback_play(Stamped(playback.chunk_size, playback.volume))
  \/ AudioPlayback_play_put
  \/ AudioPlayback_play_evict
  \/ AudioPlayback_play_reput

\* A playback constructed with buffer_size = 1: a queue of two frames.
SpecVolume ==
  /\ InitUdp({NewSender}, {TRUE}) /\ InitPlay({1})
  /\ [][NextVolume]_vars

SpecPlay == InitPlayback /\ [][NextPlay]_vars

\* The jitter buffer of a playback that is started and not stopped: the
\* receive thread in play() against the device thread in the callback.
NextJitter ==
  \/ AudioPlayback_start
  \/ AudioPlayback_audio_callback
  \/ AudioPlayback_play(Frames(playback.chunk_size))
  \/ AudioPlayback_play_put
  \/ AudioPlayback_play_evict
  \/ AudioPlayback_play_reput

SpecJitter == InitPlayback /\ [][NextJitter]_vars

\* The three objects' start() and stop() called in any order, start() of the
\* streamer by two threads at once, with traffic in both directions.
NextLifecycle ==
  \/ UDPSender_start
  \/ UDPSender_stop
  \/ UDPReceiver_start
  \/ UDPReceiver_stop
  \/ \E t \in Callers : AudioStreamer_start_198(t)
  \/ \E t \in Callers : AudioStreamer_start_199(t)
  \/ \E t \in Callers : AudioStreamer_start_200(t)
  \/ AudioStreamer_stop
  \/ UDPSender_send({<<171, 205>>}, Times)
  \/ UDPReceiver_receive_loop(InOrder(receiver.last_sequence))

SpecLifecycle == Init /\ [][NextLifecycle]_vars

\* Byte strings of up to MaxBytes bytes, each byte 0, 1 or 255.
RECURSIVE ByteStrings(_)
ByteStrings(n) ==
  IF n = 0 THEN {<<>>}
  ELSE LET shorter == ByteStrings(n - 1)
       IN  shorter \cup {Append(b, v) : b \in {x \in shorter : Len(x) = n - 1},
                                        v \in {0, 1, 255}}

\* Sample values: the two ends of the int16 range, and -1.
Samples == {0 - 32768, 0 - 1, 32767}

\* Sequences of up to n samples.
RECURSIVE SampleStrings(_)
SampleStrings(n) ==
  IF n = 0 THEN {<<>>}
  ELSE LET shorter == SampleStrings(n - 1)
       IN  shorter \cup {Append(b, v) : b \in {x \in shorter : Len(x) = n - 1},
                                        v \in Samples}

\* int16 frames handed to encode(): 1-D arrays of up to MaxBytes samples, and
\* the 2-D arrays of Channels columns among them.
Int16Frames ==
  {Array(1, q) : q \in SampleStrings(MaxBytes)}
  \cup {Array(2, q) : q \in {x \in SampleStrings(MaxBytes) : Len(x) % Channels = 0}}

\* What the peer's decode() is given: the bytes the last encode() returned.
Encoded == IF codecOp.op = "SimpleCodec.encode" THEN {codecOp.data} ELSE {}

\* The fallback codec's encode() and, on what it returned, its decode().
NextRoundTrip ==
  \/ SimpleCodec_init({1, Channels})
  \/ SimpleCodec_encode(Int16Frames)
  \/ SimpleCodec_decode(Encoded)

SpecRoundTrip == Init /\ [][NextRoundTrip]_vars

\* The decoders given any payload.
NextCodec ==
  \/ SimpleCodec_init({1, Channels})
  \/ OpusDecoder_init({1, Channels})
  \/ SimpleCodec_decode(ByteStrings(MaxBytes))
  \/ OpusDecoder_decode(ByteStrings(MaxBytes))

SpecCodec == Init /\ [][NextCodec]_vars

\* The inputs of a run that has one datagram in each direction.
FirstOnly(history, inputs) == IF history = <<>> THEN inputs ELSE {}

\* The threads of the transport: the callers of start() and stop() (stop()
\* line by line, start() between two stops), the receive-loop threads line by
\* line, the thread in send(); one datagram each way.
NextThreads ==
  \/ stopper.pc = "idle" /\ UDPSender_start
  \/ UDPSender_stop
  \/ UDPSender_send_56(FirstOnly(wire, {<<171, 205>>}), Times)
  \/ UDPSender_send_64
  \/ UDPReceiver_start_thread
  \/ \E t \in 1..MaxThreads : UDPReceiver_receive_loop_139(t)
  \/ \E t \in 1..MaxThreads :
       UDPReceiver_receive_loop_141(t, FirstOnly(arrived, InOrder(receiver.last_sequence)))
  \/ \E t \in 1..MaxThreads : UDPReceiver_receive_loop_165(t)
  \/ UDPReceiver_stop_123
  \/ UDPReceiver_stop_126
  \/ UDPReceiver_stop_130
  \/ AudioStreamer_stop_204
  \/ AudioStreamer_stop_205

SpecThreads == Init /\ [][NextThreads]_vars

\* Every loop thread keeps running: it is scheduled, its recvfrom() returns (a
\* datagram, or socket.timeout after 0.5 s, or an error), and the callback it
\* calls returns.
FairLoops ==
  \A t \in 1..MaxThreads :
    /\ WF_vars(UDPReceiver_receive_loop_139(t))
    /\ WF_vars(UDPReceiver_receive_loop_141(t, FirstOnly(arrived, InOrder(receiver.last_sequence))))
    /\ WF_vars(UDPReceiver_receive_loop_165(t))

SpecThreadsFair == SpecThreads /\ FairLoops

\* The receiver's start() and stop() against its loop threads, with a join
\* that may give up on a thread inside recvfrom() or inside the callback.
NextStopped ==
  \/ UDPReceiver_start_thread
  \/ \E t \in 1..MaxThreads : UDPReceiver_receive_loop_139(t)
  \/ \E t \in 1..MaxThreads :
       UDPReceiver_receive_loop_141(t, InOrder(receiver.last_sequence))
  \/ \E t \in 1..MaxThreads : UDPReceiver_receive_loop_165(t)
  \/ UDPReceiver_stop_123
  \/ UDPReceiver_stop_126_late
  \/ UDPReceiver_stop_130

SpecStopped == Init /\ [][NextStopped]_vars

\* One thread in update_target(), line by line, while another calls send().
NextRetarget ==
  \/ UDPSender_start
  \/ UDPSender_stop
  \/ UDPSender_send({<<171, 205>>}, Times)
  \/ UDPSender_update_target_73(Targets)
  \/ UDPSender_update_target_74

SpecRetarget == Init /\ [][NextRetarget]_vars

\* Several threads in send() on one sender, with start() and stop().
NextRace ==
  \/ UDPSender_start
  \/ UDPSender_stop
  \/ \E t \in SendThreads :
       \/ UDPSender_send_test(t)
       \/ UDPSender_send_pack(t, {<<171, 205>>}, Times)
       \/ UDPSender_send_sendto(t)
       \/ UDPSender_send_count(t)

SpecRace == Init /\ [][NextRace]_vars

\* --------------------------------------------------------- the application

\* The objects a session is made of, as one value that the steps of
\* _start_streaming and _stop_streaming pass along. `result` is how the
\* handler ended.
Session ==
  [app |-> app, capture |-> capture, playback |-> playback,
   audio_queue |-> audio_queue, producer |-> producer, codec |-> codec,
   streamer |-> streamer, sender |-> sender, receiver |-> receiver,
   sockets |-> sockets, threads |-> threads, result |-> "none"]

\* AudioCapture.start(). `fail` is where it raises. With use_loopback:
\* ValueError when there is no WASAPI loopback device (after PyAudio() was
\* created), or an error of self._pyaudio.open() or of start_stream().
\* Without: ValueError when the device has no input channel, or an error of
\* sd.InputStream() or of self._stream.start().
CaptureStart(c, fail) ==
  LET made == IF c.use_loopback THEN [c EXCEPT !.pyaudio = TRUE] ELSE c
  IN  CASE c.running ->
             [capture |-> c, result |-> "noop"]
        [] ~c.running /\ c.use_loopback /\ fail = "loopback" ->
             [capture |-> made, result |-> "ValueError"]
        [] ~c.running /\ ~c.use_loopback /\ fail = "input" ->
             [capture |-> made, result |-> "ValueError"]
        [] ~c.running /\ fail = "input_open" ->
             [capture |-> made, result |-> "raised"]
        [] ~c.running /\ fail = "input_start" ->
             [capture |-> [made EXCEPT !.stream = "open"], result |-> "raised"]
        [] OTHER ->
             [capture |-> [made EXCEPT !.stream = "active", !.running = TRUE],
              result |-> "started"]

\* AudioCapture.stop(): the stream is stopped and closed, PyAudio terminated.
CaptureStop(c) ==
  [c EXCEPT !.running = FALSE, !.stream = "None", !.pyaudio = FALSE]

\* AudioPlayback.start() of playback p, raising in sd.OutputStream() or in
\* self._stream.start().
PlaybackStart(p, fail) ==
  CASE p.running ->
         [playback |-> p, result |-> "noop"]
    [] ~p.running /\ fail = "output_open" ->
         [playback |-> p, result |-> "raised"]
    [] ~p.running /\ fail = "output_start" ->
         [playback |-> [p EXCEPT !.stream = "open"], result |-> "raised"]
    [] OTHER ->
         [playback |-> [p EXCEPT !.stream = "active", !.running = TRUE],
          result |-> "started"]

\* _stop_streaming(): is_streaming = False; then capture, streamer and
\* playback, each stopped and set to None if the attribute holds an object.
\* `fail` is where AudioStreamer.stop() raises (the sender's close()); the
\* handler has no try, so the lines after it do not run.
StopStreaming(st, fail) ==
  LET held == st.app
      c    == IF held.capture THEN CaptureStop(st.capture) ELSE st.capture
      s    == SenderStop(st.sender, st.sockets, fail)
      r    == ReceiverStop(st.receiver, s.sockets, st.threads)
      p    == [st.playback EXCEPT !.running = FALSE, !.stream = "None"]
      full == st.playback.stream # "None" /\ st.audio_queue # <<>>
  IN  IF held.streamer /\ s.result = "raised"
      THEN [st EXCEPT !.app = [held EXCEPT !.is_streaming = FALSE,
                                           !.capture = FALSE],
                      !.capture = c,
                      !.streamer = [@ EXCEPT !.running = FALSE],
                      !.sender = s.sender, !.sockets = s.sockets,
                      !.result = "raised"]
      ELSE [st EXCEPT !.app = NewApp, !.capture = c,
                      !.streamer = IF held.streamer
                                   THEN [@ EXCEPT !.running = FALSE] ELSE @,
                      !.sender = IF held.streamer THEN s.sender ELSE @,
                      !.receiver = IF held.streamer THEN r.receiver ELSE @,
                      !.sockets = IF held.streamer THEN r.sockets ELSE @,
                      !.threads = IF held.streamer THEN r.threads ELSE @,
                      !.playback = IF held.playback THEN p ELSE @,
                      !.audio_queue = IF held.playback /\ st.playback.stream # "None"
                                      THEN <<>> ELSE @,
                      !.producer = IF held.playback /\ full THEN Disturbed(@) ELSE @,
                      !.result = "stopped"]

\* The "except Exception" branch of _start_streaming: _stop_streaming(), whose
\* own exception leaves the handler.
Cleanup(st, fail) ==
  LET after == StopStreaming(st, fail)
  IN  [after EXCEPT !.result = IF @ = "raised" THEN "raised" ELSE "Exception"]

\* The "except ValueError" branch of _start_streaming: a message box.
Invalid(st) == [st EXCEPT !.result = "ValueError"]

\* The codecs get_codec() returns: OpusEncoder and OpusDecoder when both are
\* available, else one SimpleCodec.
Codecs ==
  {[class |-> "OpusDecoder", channels |-> Channels, frame_size |-> ChunkSize,
    decoder |-> TRUE],
   [class |-> "SimpleCodec", channels |-> Channels, frame_size |-> ChunkSize,
    decoder |-> FALSE]}

\* The places where _start_streaming can raise: int() of a port, inet_aton()
\* of the address, the check of the input device's channels, the output
\* stream, the sender's socket, the receiver's socket and its bind(), and the
\* capture.
Failures ==
  {"port", "address", "device", "output_open", "output_start", "sender_socket",
   "receiver_socket", "bind", "loopback", "input", "input_open", "input_start",
   "none"}

\* _start_streaming(), lines 367-460 and the two except branches. The session
\* st is one where no component of an earlier attempt is held.
StartStreaming(st, use_loopback, volume, chosen, fail, closefail) ==
  LET p     == PlaybackStart([NewPlayback(DefaultBufferSize) EXCEPT !.volume = Clamp(volume)],
                             fail)
      withP == [st EXCEPT !.codec = chosen, !.app.playback = TRUE,
                          !.playback = p.playback, !.audio_queue = <<>>]
      s     == SenderStart(NewSender, st.sockets,
                           IF fail = "sender_socket" THEN "socket" ELSE "none")
      withS == [withP EXCEPT !.app.streamer = TRUE,
                             !.streamer = [running |-> FALSE],
                             !.sender = s.sender, !.sockets = s.sockets,
                             !.receiver = NewReceiver(TRUE)]
      r     == ReceiverStart(NewReceiver(TRUE), s.sockets, st.threads,
                             CASE fail = "receiver_socket" -> "socket"
                               [] fail = "bind" -> "bind"
                               [] OTHER -> "none")
      withR == [withS EXCEPT !.receiver = r.receiver, !.sockets = r.sockets,
                             !.threads = r.threads]
      c     == CaptureStart(NewCapture(use_loopback), fail)
      withC == [withR EXCEPT !.streamer = [running |-> TRUE],
                             !.app.capture = TRUE, !.capture = c.capture]
  IN  CASE fail = "port" -> Invalid(st)
        [] fail = "address" -> Cleanup(st, closefail)
        [] fail = "device" /\ ~use_loopback -> Invalid(st)
        [] fail \in {"output_open", "output_start"} -> Cleanup(withP, closefail)
        [] fail = "sender_socket" -> Cleanup(withS, closefail)
        [] fail \in {"receiver_socket", "bind"} -> Cleanup(withR, closefail)
        [] fail \notin {"port", "address", "output_open", "output_start",
                        "sender_socket", "receiver_socket", "bind"}
           /\ ~(fail = "device" /\ ~use_loopback)
           /\ c.result = "ValueError" -> Invalid(withC)
        [] fail \notin {"port", "address", "output_open", "output_start",
                        "sender_socket", "receiver_socket", "bind"}
           /\ ~(fail = "device" /\ ~use_loopback)
           /\ c.result = "raised" -> Cleanup(withC, closefail)
        [] OTHER -> [withC EXCEPT !.app.is_streaming = TRUE,
                                  !.result = "started"]

\* _start_streaming() failing at `fail` gets as far as making the playback
\* and setting its volume.
MakesPlayback(use_loopback, fail) ==
  /\ fail \notin {"port", "address"}
  /\ ~(fail = "device" /\ ~use_loopback)

\* _start_streaming() failing at `fail` gets as far as a sender.start() that
\* starts the sender.
SenderStarts(use_loopback, fail) ==
  /\ fail \notin {"port", "address", "output_open", "output_start", "sender_socket"}
  /\ ~(fail = "device" /\ ~use_loopback)

\* What a handler of the application leaves alone.
appFrame ==
  <<wire, arrived, delivered, outdata, playOp, callers, ioVars>>

\* The session `after` a handler, written to the variables.
Becomes(after) ==
  /\ app' = after.app
  /\ capture' = after.capture
  /\ playback' = after.playback
  /\ audio_queue' = after.audio_queue
  /\ producer' = after.producer
  /\ codec' = after.codec
  /\ streamer' = after.streamer
  /\ sender' = after.sender
  /\ receiver' = after.receiver
  /\ sockets' = after.sockets
  /\ threads' = after.threads

\* _toggle_streaming() while not streaming: _start_streaming().
AudioStreamingApp_start_streaming(volumes) ==
  /\ ~app.is_streaming
  /\ ~app.capture /\ ~app.streamer /\ ~app.playback
  /\ \E use_loopback \in BOOLEAN, volume \in volumes, chosen \in Codecs,
        fail \in Failures, closefail \in {"close", "none"} :
       LET after == StartStreaming(Session, use_loopback, volume, chosen,
                                   fail, closefail)
       IN  /\ Becomes(after)
           /\ requested' = IF MakesPlayback(use_loopback, fail)
                           THEN volume ELSE requested
           /\ session_sends' = CountSends(IF SenderStarts(use_loopback, fail)
                                          THEN "started" ELSE "raised")
           /\ codecOp' = IF after.codec = codec THEN codecOp
                         ELSE CodecOp("get_codec", <<>>, "returned", NoFrame)
           /\ lastOp' = Op("AudioStreamingApp._start_streaming",
                           app.is_streaming, after.result)
  /\ UNCHANGED appFrame

\* _toggle_streaming() while streaming, or _quit_app(): _stop_streaming().
AudioStreamingApp_stop_streaming ==
  /\ app.is_streaming
  /\ \E closefail \in {"close", "none"} :
       LET after == StopStreaming(Session, closefail)
       IN  /\ Becomes(after)
           /\ lastOp' = Op("AudioStreamingApp._stop_streaming",
                           app.is_streaming, after.result)
  /\ UNCHANGED <<session_sends, codecOp, requested, appFrame>>

\* _on_volume_change(value): set_volume() if a playback is held.
AudioStreamingApp_on_volume_change(volumes) ==
  /\ app.playback
  /\ AudioPlayback_set_volume(volumes)

\* _on_audio_captured(audio_data), called by a running capture: the encoded
\* frame goes to streamer.send() while is_streaming and a streamer is held.
AudioStreamingApp_on_audio_captured(payloads, times) ==
  /\ capture.running /\ capture.stream = "active"
  /\ app.is_streaming /\ app.streamer
  /\ AudioStreamer_send(payloads, times)

NextApp ==
  \/ AudioStreamingApp_start_streaming({50, 100})
  \/ AudioStreamingApp_stop_streaming
  \/ AudioStreamingApp_on_volume_change(Volumes)
  \/ AudioStreamingApp_on_audio_captured({<<171, 205>>}, Times)

SpecApp == Init /\ [][NextApp]_vars

\* A streamer's sender and receiver through starts, stops, sends,
\* redirections and arrivals with gaps across the end of the sequence range.
NextStats ==
  \/ AudioStreamer_start
  \/ AudioStreamer_stop
  \/ AudioStreamer_send({<<171, 205>>}, Times)
  \/ AudioStreamer_update_target({[ip |-> "10.0.0.2", port |-> 5001]})
  \/ UDPReceiver_receive_loop(NearWrap(receiver.last_sequence))

SpecStats == Init /\ [][NextStats]_vars

\* ---------------------------------------------------------------- end to end

\* A channel that neither drops, duplicates nor reorders: what recvfrom()
\* returns next is the oldest datagram sent that has not arrived yet.
Channel == IF Len(arrived) < Len(wire) THEN {wire[Len(arrived) + 1].data} ELSE {}

\* One iteration of the receive loop of a receiver whose callback is the
\* application's _on_audio_received: the datagram is counted, and the callback
\* (it runs on the loop's thread, which takes no other datagram before it
\* returns) decodes the payload and calls playback.play() while is_streaming
\* and a playback is held. An exception of decode() is caught and printed.
\* `opus` is what the Opus library does with the payload.
UDPReceiver_receive_loop_app(inputs) ==
  /\ receiver.thread \in threads
  /\ producer.pc = "idle"
  /\ Len(arrived) < MaxRecv
  /\ \E data \in inputs, opus \in {"pcm", "error"} :
       LET r       == ReceiverReceive(receiver, data)
           called  == r.calls # <<>> /\ app.is_streaming /\ app.playback
           payload == r.calls[1][1]
           d       == IF codec.class = "SimpleCodec"
                      THEN SimpleDecode(codec, payload)
                      ELSE OpusDecode(codec, payload, opus)
       IN  /\ receiver' = r.receiver
           /\ arrived' = Append(arrived, data)
           /\ delivered' = delivered \o r.calls
           /\ lastOp' = Op("UDPReceiver._receive_loop", receiver.running, r.result)
           /\ codecOp' = IF called
                         THEN CodecOp(codec.class \o ".decode", payload, d.result,
                                      d.frame)
                         ELSE codecOp
           /\ IF called /\ d.result = "returned" /\ playback.running
              THEN /\ producer' = [pc |-> "put", audio_data |-> d.frame,
                                   at_call |-> audio_queue, interleaved |-> FALSE]
                   /\ playOp' = PlayOp("AudioPlayback.play", "called")
              ELSE UNCHANGED <<producer, playOp>>
  /\ UNCHANGED <<sender, streamer, sockets, threads, wire, session_sends,
                 playback, audio_queue, outdata, codec, callers, ioVars, appVars>>

\* One stereo row as the capture's encoder hands it to send().
Row == SimpleEncode(Array(2, <<1, 32767>>))

\* A session from _start_streaming on: the capture sends, the channel carries
\* every datagram to the session's own receiver, the callback pushes the
\* decoded frames and the output device takes them.
NextEndToEnd ==
  \/ AudioStreamingApp_start_streaming({100})
  \/ AudioStreamingApp_on_audio_captured({Row}, Times)
  \/ UDPReceiver_receive_loop_app(Channel)
  \/ AudioPlayback_play_put
  \/ AudioPlayback_play_evict
  \/ AudioPlayback_play_reput
  \/ AudioPlayback_audio_callback

SpecEndToEnd == Init /\ [][NextEndToEnd]_vars

\* --------------------------------------------------------------- reordering

\* A channel that may drop a datagram and may let one overtake another, and
\* duplicates none: what recvfrom() returns next is any datagram sent that
\* has not arrived.
Unordered ==
  {wire[i].data : i \in {j \in 1..Len(wire) : \A k \in 1..Len(arrived) :
                                                 arrived[k] # wire[j].data}}

\* One session of a sender and a receiver joined by that channel.
NextReorder ==
  \/ UDPSender_start
  \/ UDPSender_send({<<171, 205>>}, Times)
  \/ UDPReceiver_start
  \/ UDPReceiver_receive_loop(Unordered)

SpecReorder == Init /\ [][NextReorder]_vars

\* ------------------------------------------------------------------ framing

\* The payload the k-th transmitted datagram is sent with: k - 1 bytes, none
\* the same as in another payload.
Captured(k) == [i \in 1..(k - 1) |-> (37 * k + 218 * i) % 256]

\* Clock readings with every byte of the u64 in use, and an early one.
Clock == {<<0, 404, 1, 2>>, <<65535, 4660, 22136, 39612>>}

\* A sender and a receiver joined by the channel, each started and stopped at
\* any time; the payloads sent are Captured(1), Captured(2), ...
NextFraming ==
  \/ UDPSender_start
  \/ UDPSender_stop
  \/ UDPSender_send({Captured(Len(wire) + 1)}, Clock)
  \/ UDPReceiver_start
  \/ UDPReceiver_stop
  \/ UDPReceiver_receive_loop(Channel)

SpecFraming == InitUdp({NewSender}, {TRUE}) /\ InitPlay({BufferSize}) /\ [][NextFraming]_vars

\* ----------------------------------------------------------------- locks

\* The methods whose body is one "with self._lock:" block.
Locked ==
  {"UDPSender.start", "UDPSender.stop", "UDPReceiver.start",
   "AudioPlayback.start", "AudioPlayback.stop"}

\* The lock a method's with-block takes: each object has its own.
LockOf(method) ==
  CASE method \in {"UDPSender.start", "UDPSender.stop"} -> "UDPSender._lock"
    [] method = "UDPReceiver.start" -> "UDPReceiver._lock"
    [] method \in {"AudioPlayback.start", "AudioPlayback.stop"} -> "AudioPlayback._lock"

\* The socket or device calls a method makes inside its with-block, in the
\* state as it is: none when its test returns early or skips them.
CallOf(method) ==
  CASE method = "UDPSender.start" ->
         IF sender.running THEN "none" ELSE "socket.socket()"
    [] method = "UDPSender.stop" ->
         IF sender.socket = None THEN "none" ELSE "socket.close()"
    [] method = "UDPReceiver.start" ->
         IF receiver.running THEN "none" ELSE "socket.socket(), bind()"
    [] method = "AudioPlayback.start" ->
         IF playback.running THEN "none" ELSE "sd.OutputStream(), start()"
    [] method = "AudioPlayback.stop" ->
         IF playback.stream = "None" THEN "none" ELSE "stream.stop(), close()"

\* The locks some thread holds.
HeldLocks == UNION {lockers[t].holds : t \in LockThreads}

\* What a step that only moves a thread inside its with-block leaves alone.
lockFrame ==
  <<udpVars, playVars, callers, loops, stopper, sending, inSend, updating,
    codecVars, appVars>>

\* "with self._lock:" of `method`: the thread waits until the lock is free.
With_enter(t, methods) ==
  /\ lockers[t].pc = "idle"
  /\ \E method \in methods :
       /\ LockOf(method) \notin HeldLocks
       /\ lockers' = [lockers EXCEPT ![t] =
                        [pc |-> "locked", method |-> method,
                         holds |-> {LockOf(method)}, io |-> "none"]]
  /\ UNCHANGED lockFrame

\* The thread goes into the socket or device call of its method.
With_call(t) ==
  /\ lockers[t].pc = "locked"
  /\ CallOf(lockers[t].method) # "none"
  /\ lockers' = [lockers EXCEPT ![t].pc = "call",
                                 ![t].io = CallOf(lockers[t].method)]
  /\ UNCHANGED lockFrame

\* The call returns or raises, the method's assignments are made, and the
\* with-block is left, which releases the lock.
With_exit(t) ==
  /\ \/ lockers[t].pc = "call"
     \/ lockers[t].pc = "locked" /\ CallOf(lockers[t].method) = "none"
  /\ lockers' = [lockers EXCEPT ![t] = NoLock]
  /\ \E fail \in {"socket", "bind", "close", "output_open", "output_start", "none"} :
       LET method == lockers[t].method
           s == SenderStart(sender, sockets, fail)
           h == SenderStop(sender, sockets, fail)
           r == ReceiverStart(receiver, sockets, threads, fail)
           p == PlaybackStart(playback, fail)
       IN  \/ /\ method = "UDPSender.start"
              /\ sender' = s.sender
              /\ sockets' = s.sockets
              /\ session_sends' = CountSends(s.result)
              /\ lastOp' = Op(method, sender.running, s.result)
              /\ UNCHANGED <<receiver, threads, playVars>>
           \/ /\ method = "UDPSender.stop"
              /\ sender' = h.sender
              /\ sockets' = h.sockets
              /\ lastOp' = Op(method, sender.running, h.result)
              /\ UNCHANGED <<receiver, threads, session_sends, playVars>>
           \/ /\ method = "UDPReceiver.start"
              /\ receiver' = r.receiver
              /\ sockets' = r.sockets
              /\ threads' = r.threads
              /\ lastOp' = Op(method, receiver.running, r.result)
              /\ UNCHANGED <<sender, session_sends, playVars>>
           \/ /\ method = "AudioPlayback.start"
              /\ playback' = p.playback
              /\ playOp' = PlayOp(method, p.result)
              /\ UNCHANGED <<sender, receiver, sockets, threads, session_sends,
                             lastOp, audio_queue, outdata, producer>>
           \/ /\ method = "AudioPlayback.stop"
              /\ playback' = [playback EXCEPT !.running = FALSE, !.stream = "None"]
              /\ audio_queue' = IF playback.stream # "None" THEN <<>> ELSE audio_queue
              /\ playOp' = PlayOp(method, "stopped")
              /\ UNCHANGED <<sender, receiver, sockets, threads, session_sends,
                             lastOp, outdata, producer>>
  /\ UNCHANGED <<streamer, wire, arrived, delivered, callers, loops, stopper,
                 sending, inSend, updating, codecVars, appVars>>

NextLocks ==
  \E t \in LockThreads :
    \/ With_enter(t, Locked)
    \/ With_call(t)
    \/ With_exit(t)

SpecLocks == Init /\ [][NextLocks]_vars

\* ------------------------------------------------------------------ claims

\* The 32-bit successor of a, counted on the limbs: low + 1, carrying into
\* high, and <<0, 0>> after <<65535, 65535>>.
SuccessorOf(a) ==
  IF a[2] < Base - 1 THEN <<a[1], a[2] + 1>>
  ELSE IF a[1] < Base - 1 THEN <<a[1] + 1, 0>>
  ELSE <<0, 0>>

Successor(a, b) == b = SuccessorOf(a)

\* The header sequence of a datagram, read byte by byte.
SequenceOf(d) == <<d[1] * 256 + d[2], d[3] * 256 + d[4]>>

\* Every datagram of `seq` has a header and carries the sequence number that
\* follows the one before it.
Consecutive(seq) ==
  /\ \A i \in 1..Len(seq) : Len(seq[i]) >= HEADER_SIZE
  /\ \A i \in 1..(Len(seq) - 1) : Successor(SequenceOf(seq[i]), SequenceOf(seq[i + 1]))

\* C1: while the datagrams that reached the receiver carry consecutive sequence
\* numbers (modulo 2^32) and are all at least 12 bytes long, packets_lost is 0
\* and the callback has been invoked once per datagram, in arrival order, with
\* that datagram's payload (the bytes after the header) and sequence.
C1_InOrderNoLoss ==
  Consecutive(arrived) =>
    /\ receiver.packets_lost = 0
    /\ receiver.callback =>
         delivered = [i \in 1..Len(arrived) |->
                        <<SubSeq(arrived[i], HEADER_SIZE + 1, Len(arrived[i])),
                          SequenceOf(arrived[i])>>]

\* C1's case: three consecutive datagrams, the first with sequence 2^32 - 1,
\* have been delivered to a callback.
C1_Witness ==
  /\ Len(arrived) >= 3
  /\ Consecutive(arrived)
  /\ SequenceOf(arrived[1]) = U32Max
  /\ receiver.callback
  /\ Len(delivered) >= 3

\* C2: in every state reached by interleaving play() on the producer thread,
\* the device callback, and start(), stop() and set_volume(), the jitter queue
\* holds at most 2 x buffer_size frames.
C2_QueueBounded == Len(audio_queue) <= 2 * playback.buffer_size

\* C2's case: the queue is at its capacity, a play() has found it full, and
\* the callback has just taken a frame while that play() was still running.
C2_Witness ==
  /\ Len(audio_queue) = 2 * playback.buffer_size - 1
  /\ playback.buffer_size = BufferSize
  /\ producer.pc = "evict"
  /\ playOp = PlayOp("AudioPlayback._audio_callback", "played")

\* A play() has just returned that was called on a running playback whose
\* queue held 2 x buffer_size frames, and no other thread took a frame out of
\* the queue during the call.
FullAndUndisturbed ==
  /\ playOp.op = "AudioPlayback.play"
  /\ producer.pc = "idle"
  /\ playOp.result \in {"queued", "replaced", "dropped", "raised"}
  /\ Len(producer.at_call) = 2 * playback.buffer_size
  /\ ~producer.interleaved

\* C3: when play(frame) was called with the queue holding C = 2 x buffer_size
\* frames and no pop interleaved, then at its return the oldest frame is gone,
\* the other C - 1 frames are in their old order, the new frame is the newest,
\* and the queue holds C frames again.
C3_EvictsOldest ==
  FullAndUndisturbed =>
    /\ Len(audio_queue) = 2 * playback.buffer_size
    /\ \A i \in 1..(Len(audio_queue) - 1) : audio_queue[i] = producer.at_call[i + 1]
    /\ audio_queue[Len(audio_queue)] = producer.audio_data

\* C3's case: such a play() has returned, for a queue of at least four frames
\* of which the oldest differed from the second oldest.
C3_Witness ==
  /\ FullAndUndisturbed
  /\ Len(producer.at_call) >= 4
  /\ producer.at_call[1] # producer.at_call[2]
  /\ producer.at_call[Len(producer.at_call)] # producer.audio_data

\* C4 as claimed: when AudioStreamer.start() has raised, neither the sender nor
\* the receiver is running, no socket is open and is_running is false.
C4_StartFailsAtomically ==
  lastOp = Op("AudioStreamer.start", FALSE, "raised") =>
    /\ ~sender.running
    /\ ~receiver.running
    /\ sockets = {}
    /\ ~streamer.running

\* C5: a start() that finds its object running changes nothing of it: the
\* sender keeps its socket, its sequence counter and its counters, the receiver
\* its socket and its thread, the streamer its flag, and no socket or thread is
\* created; the process never holds a socket nobody has the handle of, nor a
\* second receive thread. AudioStreamer.start() is taken line by line for two
\* calling threads.
C5_StartIdempotent ==
  [][/\ (lastOp'.op \in {"UDPSender.start", "AudioStreamer.start:198"} /\ sender.running)
          => (sender' = sender /\ sockets' = sockets /\ threads' = threads)
     /\ (lastOp'.op \in {"UDPReceiver.start", "AudioStreamer.start:199"} /\ receiver.running)
          => (receiver' = receiver /\ sockets' = sockets /\ threads' = threads)
     /\ (lastOp'.op = "AudioStreamer.start" /\ lastOp'.result = "returned"
           /\ streamer.running)
          => (streamer' = streamer /\ sender' = sender /\ receiver' = receiver)
     /\ sockets' = {sender'.socket, receiver'.socket} \ {None, Closed}
     /\ threads' = {receiver'.thread} \ {None}
     /\ Cardinality(threads') <= 1]_vars

\* C5's case: two threads are inside AudioStreamer.start() at once, the second
\* found the sender (which has sent a datagram since it was started) and the
\* receiver running, and there is one socket each and one thread.
C5_Witness ==
  /\ callers = [t \in Callers |-> "200"]
  /\ lastOp.op = "AudioStreamer.start:199"
  /\ lastOp.result = "noop"
  /\ sender.sequence = U32(1)
  /\ Cardinality(sockets) = 2
  /\ Cardinality(threads) = 1

\* C6: a stop() of an object that is not running (never started, or stopped
\* before) returns without raising and leaves it stopped, its socket and thread
\* handles None and nothing of it open or alive, and its sequence counter and
\* statistics as they were; so does AudioStreamer.stop().
C6_StopIdempotent ==
  [][/\ (lastOp'.op \in {"UDPSender.stop", "AudioStreamer.stop"} /\ ~sender.running)
          => /\ lastOp'.result = "stopped"
             /\ ~sender'.running
             /\ sender'.socket = None
             /\ sender.socket \notin sockets'
             /\ sender'.sequence = sender.sequence
             /\ sender'.packets_sent = sender.packets_sent
             /\ sender'.bytes_sent = sender.bytes_sent
     /\ (\/ lastOp'.op = "UDPReceiver.stop" /\ ~receiver.running
         \/ lastOp'.op = "AudioStreamer.stop" /\ ~receiver.running /\ ~sender.running)
          => /\ lastOp'.result = "stopped"
             /\ ~receiver'.running
             /\ receiver'.socket = None
             /\ receiver'.thread = None
             /\ receiver.socket \notin sockets'
             /\ threads' = {}
             /\ receiver'.packets_received = receiver.packets_received
             /\ receiver'.bytes_received = receiver.bytes_received
             /\ receiver'.packets_lost = receiver.packets_lost
             /\ receiver'.last_sequence = receiver.last_sequence
     /\ lastOp'.op = "AudioStreamer.stop" => ~streamer'.running]_vars

\* C6's case: AudioStreamer.stop() has returned for a streamer that had been
\* stopped before, after a session with traffic in both directions.
C6_Witness ==
  /\ lastOp = Op("AudioStreamer.stop", FALSE, "stopped")
  /\ sender.packets_sent = PyInt(2)
  /\ receiver.packets_received = 2
  /\ ~sender.running /\ ~receiver.running
  /\ sockets = {} /\ threads = {}

\* The step is an iteration of the receive loop that accepted a datagram (one
\* at least as long as a header); Arriving is that datagram.
Arriving == arrived'[Len(arrived')]

Accepts == arrived' # arrived /\ Len(Arriving) >= HEADER_SIZE

\* (sequence - expected) mod 2^32 for the arriving datagram, expected being the
\* successor of the field _last_sequence.
ArrivingGap == WSub(SequenceOf(Arriving), SuccessorOf(receiver.last_sequence))

\* The call the loop makes for the arriving datagram.
ArrivingCall ==
  <<SubSeq(Arriving, HEADER_SIZE + 1, Len(Arriving)), SequenceOf(Arriving)>>

\* C7: when the receiver has a last sequence and accepts a datagram whose gap
\* (sequence - expected) mod 2^32 is in 1..999, packets_lost grows by exactly
\* that gap; and no step ever takes anything back from packets_lost, so the gap
\* stays counted when the skipped numbers arrive later.
C7_SmallGapCounted ==
  [][/\ (/\ Accepts
         /\ receiver.last_sequence # NoSequence
         /\ ArrivingGap[1] = 0
         /\ ArrivingGap[2] \in 1..999)
          => receiver'.packets_lost = receiver.packets_lost + ArrivingGap[2]
     /\ receiver'.packets_lost >= receiver.packets_lost]_vars

\* C7's case: a datagram, then the one two after it (a gap of 1, counted), then
\* the skipped one arriving late; the count is still 1.
C7_Witness ==
  /\ Len(arrived) = 3
  /\ Consecutive(<<arrived[1], arrived[3], arrived[2]>>)
  /\ receiver.packets_lost = 1

\* C8: when the receiver has a last sequence and accepts a datagram whose gap
\* is 1000 or more, packets_lost is unchanged, and the datagram is counted in
\* packets_received and bytes_received and handed to the callback.
C8_LargeGapNotCounted ==
  [][(/\ Accepts
      /\ receiver.last_sequence # NoSequence
      /\ (ArrivingGap[1] > 0 \/ ArrivingGap[2] >= 1000))
       => /\ receiver'.packets_lost = receiver.packets_lost
          /\ receiver'.packets_received = receiver.packets_received + 1
          /\ receiver'.bytes_received = receiver.bytes_received + Len(Arriving)
          /\ receiver.callback => delivered' = Append(delivered, ArrivingCall)]_vars

\* C8's case: two datagrams, the second 1001 after the first (a gap of exactly
\* 1000), both counted and delivered, nothing lost.
C8_Witness ==
  /\ Len(arrived) = 2
  /\ Len(arrived[1]) >= HEADER_SIZE /\ Len(arrived[2]) >= HEADER_SIZE
  /\ WSub(SequenceOf(arrived[2]), SequenceOf(arrived[1])) = U32(1001)
  /\ receiver.packets_lost = 0
  /\ receiver.packets_received = 2
  /\ Len(delivered) = 2

\* C9: a datagram with sequence 0 accepted when the last sequence is 2^32 - 1
\* leaves packets_lost unchanged; and a successful send by a sender whose
\* sequence counter is 2^32 - 1 leaves the counter at 0.
C9_Wraparound ==
  [][/\ (Accepts /\ receiver.last_sequence = <<Base - 1, Base - 1>>
           /\ SequenceOf(Arriving) = <<0, 0>>)
          => receiver'.packets_lost = receiver.packets_lost
     /\ (wire' # wire /\ sender.sequence = <<Base - 1, Base - 1>>)
          => sender'.sequence = <<0, 0>>]_vars

\* C9's case: the receiver has accepted 2^32 - 1 and then 0 and counted no
\* loss, and the sender has transmitted sequence 2^32 - 1 and now holds 0.
C9_Witness ==
  /\ Len(arrived) >= 2
  /\ SequenceOf(arrived[Len(arrived) - 1]) = <<Base - 1, Base - 1>>
  /\ SequenceOf(arrived[Len(arrived)]) = <<0, 0>>
  /\ receiver.packets_lost = 0
  /\ wire # <<>>
  /\ SequenceOf(wire[Len(wire)].data) = <<Base - 1, Base - 1>>
  /\ sender.sequence = <<0, 0>>

\* C10: the sender's sequence counter is the number of successful sends since
\* the start() that started it, modulo 2^32 (so it is 0 after that start() and
\* nothing but a successful send moves it), and the datagram the k-th of these
\* sends transmits carries (k - 1) mod 2^32 in its header.
C10_SequenceCountsSends ==
  /\ sender.sequence = <<session_sends[2], session_sends[3]>>
  /\ lastOp.result = "started" => sender.sequence = <<0, 0>>
  /\ lastOp.result = "sent" =>
       SuccessorOf(SequenceOf(wire[Len(wire)].data)) = <<session_sends[2], session_sends[3]>>

\* C10's case: the send number 2^32 + 1 of a session has carried sequence 0; or
\* the first send after a stop() and a second start() has carried sequence 0.
C10_Witness ==
  /\ lastOp.result = "sent"
  /\ SequenceOf(wire[Len(wire)].data) = <<0, 0>>
  /\ \/ session_sends = <<1, 0, 1>>
     \/ session_sends = <<0, 0, 1>> /\ Len(wire) = 3

\* The two ends near the end of the sequence range.
NextWrap ==
  \/ UDPSender_start
  \/ UDPSender_stop
  \/ UDPSender_send({<<171, 205>>}, Times)
  \/ UDPReceiver_start
  \/ UDPReceiver_stop
  \/ UDPReceiver_receive_loop(NearWrap(receiver.last_sequence))

InitWrap ==
  InitUdp({NewSender, LongRunningSender}, {TRUE}) /\ InitPlay({BufferSize})

SpecWrap == InitWrap /\ [][NextWrap]_vars

\* C11 as claimed: a send() on a UDPSender that is not running, or on an
\* AudioStreamer whose is_running is false (never started, stopped, or left by
\* a start() that raised), transmits nothing, leaves the sequence counter,
\* packets_sent and bytes_sent as they were, and returns without raising.
C11_SendWhenNotStarted ==
  [][(\/ lastOp'.op = "UDPSender.send" /\ ~sender.running
      \/ lastOp'.op = "AudioStreamer.send" /\ ~streamer.running)
       => /\ wire' = wire
          /\ sender'.sequence = sender.sequence
          /\ sender'.packets_sent = sender.packets_sent
          /\ sender'.bytes_sent = sender.bytes_sent
          /\ lastOp'.result # "raised"]_vars

\* C12: a send() whose sendto() fails returns without raising and changes
\* nothing of the sender (it stays running with its socket, its sequence
\* counter, packets_sent and bytes_sent) and transmits nothing; and every
\* successful send() transmits the sequence the counter held before it, so the
\* one after a failure carries the sequence number the failed one would have.
C12_FailedSendChangesNothing ==
  [][/\ (lastOp'.op \in {"UDPSender.send", "AudioStreamer.send"}
           /\ lastOp'.result = "send error")
          => /\ sender.running /\ sender' = sender
             /\ wire' = wire
             /\ sockets' = sockets
     /\ wire' # wire
          => /\ SequenceOf(wire'[Len(wire')].data) = sender.sequence
             /\ Len(wire') = Len(wire) + 1]_vars

\* C12's case: a send() has just failed on a sender that had transmitted
\* sequence 0 before and still holds sequence 1, running.
C12_Witness ==
  /\ lastOp = Op("UDPSender.send", TRUE, "send error")
  /\ Len(wire) = 1
  /\ sender.sequence = U32(1)
  /\ sender.running

\* C13 as claimed: when AudioStreamer.stop() is over, whether it returned or
\* sender.stop() raised, the sender and the receiver are both stopped, the
\* receive thread has ended and no socket of the two is open.
C13_StopStopsBoth ==
  lastOp.op = "AudioStreamer.stop" =>
    /\ ~sender.running
    /\ ~receiver.running
    /\ receiver.thread = None /\ threads = {}
    /\ sockets = {}

\* C14 as claimed: when a play(frame) that found the playback running has
\* ended, and the playback is still running, the frame is in the queue, as its
\* newest element, whatever the callback popped in between.
C14_FrameAlwaysEnters ==
  (/\ playOp.op = "AudioPlayback.play"
   /\ playOp.result \in {"queued", "replaced", "dropped", "raised"}
   /\ playback.running)
    => /\ audio_queue # <<>>
       /\ audio_queue[Len(audio_queue)] = producer.audio_data

\* C15: a callback that finds the queue empty fills the whole output buffer
\* (chunk_size rows of Channels values) with zeros, ends without an error and
\* leaves the queue empty; and the callback can always run while the stream is
\* started, whether a frame is queued or not: it does not wait for one.
C15_UnderrunIsSilence ==
  /\ [][(playOp'.op = "AudioPlayback._audio_callback" /\ audio_queue = <<>>)
          => /\ Len(outdata') = playback.chunk_size * Channels
             /\ \A i \in 1..Len(outdata') : outdata'[i] = 0
             /\ audio_queue' = <<>>
             /\ playOp'.result = "silence"]_vars
  /\ [](playback.stream = "active" => ENABLED AudioPlayback_audio_callback)

\* C15's case: the callback has just run on an empty queue of a running
\* playback, at a volume other than the initial one.
C15_Witness ==
  /\ playOp = PlayOp("AudioPlayback._audio_callback", "silence")
  /\ audio_queue = <<>>
  /\ playback.running
  /\ playback.volume = 50
  /\ \A i \in 1..Len(outdata) : outdata[i] = 0

\* C16: the step in which a stop() returns leaves the socket of the object
\* closed and the field None (both sockets for AudioStreamer.stop()), wherever
\* the loop thread and the thread in send() are at that moment; and in
\* UDPReceiver.stop() the flag is cleared before the join and the join is over
\* before the socket is closed.
C16_StopReleasesSocket ==
  [][/\ (lastOp'.op = "UDPSender.stop" /\ lastOp'.result = "stopped")
          => sender'.socket = None /\ sender.socket \notin sockets'
     /\ (lastOp'.op = "AudioStreamer.stop:205" /\ lastOp'.result = "stopped")
          => sender'.socket = None /\ sender.socket \notin sockets'
     /\ (lastOp'.op = "UDPReceiver.stop" /\ lastOp'.result = "stopped")
          => receiver'.socket = None /\ receiver.socket \notin sockets'
     /\ (lastOp'.op = "AudioStreamer.stop" /\ lastOp'.result = "stopped")
          => /\ receiver'.socket = None /\ receiver.socket \notin sockets'
             /\ sender'.socket = None
             /\ sockets' = {}
     /\ (receiver.thread # None /\ receiver'.thread = None) => ~receiver.running
     /\ (stopper.pc # "idle" /\ receiver.socket \in sockets
           /\ receiver.socket \notin sockets')
          => ~receiver.running /\ receiver.thread = None]_vars

\* C16's case: UDPReceiver.stop() has returned after a join that timed out,
\* the loop thread being still inside the callback, while another thread is
\* between the test and the sendto() of a send().
C16_Witness ==
  /\ lastOp = Op("UDPReceiver.stop", FALSE, "stopped")
  /\ \E t \in threads : loops[t].pc = "callback"
  /\ sending.pc = "sendto"
  /\ receiver.socket = None
  /\ sender.running

\* C17 as claimed: whenever the running flag is clear while a receive-loop
\* thread is alive, that thread eventually ends.
C17_StopIsObserved ==
  \A t \in 1..MaxThreads :
    (t \in threads /\ ~receiver.running) ~> (t \notin threads)

\* What the loop does guarantee: the thread ends unless the flag is set again
\* (by a start()) before the thread has read it.
C17_UnlessRestarted ==
  \A t \in 1..MaxThreads :
    (t \in threads /\ ~receiver.running) ~> (t \notin threads \/ receiver.running)

\* C18 as claimed: every decode() returns instead of raising, and what it
\* returns is the payload reinterpreted as int16 values or a frame of
\* frame_size x channels zeros.
C18_DecodeNeverRaises ==
  codecOp.op \in {"SimpleCodec.decode", "OpusDecoder.decode"} =>
    /\ codecOp.result = "returned"
    /\ codecOp.frame # NoFrame

\* C19: an iteration of the receive loop whose datagram is shorter than 12
\* bytes changes no field of the receiver (packets_received, bytes_received,
\* packets_lost, last_sequence) and calls no callback; one whose datagram is
\* exactly 12 bytes is counted in packets_received, adds 12 to bytes_received,
\* becomes the last sequence and is handed to the callback, when one is set,
\* with an empty payload.
C19_ShortDatagramsDropped ==
  [][arrived' # arrived =>
       /\ Len(Arriving) < 12
            => /\ receiver' = receiver
               /\ delivered' = delivered
       /\ Len(Arriving) = 12
            => /\ receiver'.packets_received = receiver.packets_received + 1
               /\ receiver'.bytes_received = receiver.bytes_received + 12
               /\ receiver'.last_sequence = SequenceOf(Arriving)
               /\ receiver.callback
                    => delivered' = Append(delivered, <<<<>>, SequenceOf(Arriving)>>)
               /\ ~receiver.callback => delivered' = delivered]_vars

\* C19's case: an 11-byte datagram, then a 12-byte one, then an empty one have
\* arrived; one datagram is counted and one call made, with no payload.
C19_Witness ==
  /\ Len(arrived) = 3
  /\ Len(arrived[1]) = 11 /\ Len(arrived[2]) = 12 /\ arrived[3] = <<>>
  /\ receiver.packets_received = 1
  /\ receiver.bytes_received = 12
  /\ Len(delivered) = 1
  /\ delivered[1][1] = <<>>

\* C20: when _start_streaming fails at any step, by a validation error or by
\* a resource failure, the session does not start: after the handler returns
\* (through either of its except branches) is_streaming is false, and no
\* playback stream, sender socket, receiver socket or thread, or capture
\* stream made during the attempt is open or running.
C20_FailedStartLeavesNothing ==
  (/\ lastOp.op = "AudioStreamingApp._start_streaming"
   /\ lastOp.result \in {"ValueError", "Exception"})
    => /\ ~app.is_streaming
       /\ playback.stream = "None" /\ ~playback.running
       /\ sockets = {}
       /\ threads = {}
       /\ capture.stream = "None" /\ ~capture.running

\* No thread is inside send().
Quiescent == \A t \in SendThreads : inSend[t].pc = "idle"

\* C21: send() called from several threads at once, and together with
\* start() and stop(): once the calls have returned, the N datagrams they
\* transmitted have raised packets_sent by N, and when they all belong to one
\* session they carry the N consecutive sequence numbers 0 .. N-1.
C21_ConcurrentSendsCounted ==
  Quiescent =>
    /\ sender.packets_sent = PyInt(Len(wire))
    /\ session_sends = PyInt(Len(wire)) =>
         \A i \in 1..Len(wire) : Unpack(wire[i].data).sequence = U32(i - 1)

\* C22: no lock is held across a network or device call: a thread that is
\* creating, binding or closing a socket, or opening, starting, stopping or
\* closing an audio stream, holds none of the components' locks.
C22_NoLockAcrossIO ==
  \A t \in LockThreads : lockers[t].io # "none" => lockers[t].holds = {}

\* C23: the statistics are monotonic: no step of send, receive, start, stop
\* or update_target lowers packets_sent, bytes_sent, packets_received,
\* bytes_received or packets_lost, and a counter is at zero only while the
\* object has counted nothing: not after a datagram it sent or accepted.
C23_StatsMonotonic ==
  [][/\ WLeq(sender.packets_sent, sender'.packets_sent)
     /\ WLeq(sender.bytes_sent, sender'.bytes_sent)
     /\ receiver.packets_received <= receiver'.packets_received
     /\ receiver.bytes_received <= receiver'.bytes_received
     /\ receiver.packets_lost <= receiver'.packets_lost
     /\ wire' # <<>> => /\ sender'.packets_sent # PyInt(0)
                        /\ sender'.bytes_sent # PyInt(0)
     /\ arrived' # <<>> => /\ receiver'.packets_received > 0
                           /\ receiver'.bytes_received > 0]_vars

\* C23's case: a streamer that has sent two datagrams, and received two with
\* one lost between them, is started again after a stop(), and the counters
\* still show the session before.
C23_Witness ==
  /\ lastOp = Op("AudioStreamer.start", FALSE, "returned")
  /\ sender.packets_sent = PyInt(2)
  /\ sender.bytes_sent = PyInt(2 * (HEADER_SIZE + 2))
  /\ sender.sequence = U32(0)
  /\ receiver.packets_lost = 1
  /\ receiver.packets_received = 2

\* C24: the volume is applied when a frame is taken from the queue, not when
\* it is pushed: play() stores the frame as it was given, and the callback
\* writes each of its samples times the volume that is set at that moment,
\* which lies between 0 and 1, whatever the volume was at the push.
C24_VolumeAtPop ==
  [][/\ Len(audio_queue') > Len(audio_queue)
          => audio_queue'[Len(audio_queue')] = producer.audio_data
     /\ (playOp'.op = "AudioPlayback._audio_callback" /\ audio_queue # <<>>)
          => /\ playback.volume \in 0..100
             /\ Len(outdata') = Len(Head(audio_queue).samples)
             /\ \A i \in 1..Len(outdata') :
                  outdata'[i] = Head(audio_queue).samples[i] * playback.volume
             /\ audio_queue' = Tail(audio_queue)]_vars

\* C24's case: a frame pushed while the volume was 1.0 has just been written
\* by a callback that ran after set_volume(0.5), at half its values.
C24_Witness ==
  /\ playOp = PlayOp("AudioPlayback._audio_callback", "played")
  /\ playback.volume = 50
  /\ \A i \in 1..Len(outdata) : outdata[i] = (1000 + 100) * 50

\* C25: after any calls of set_volume() the volume lies in [0.0, 1.0]; a call
\* with v below 0 stores 0.0, with v above 1 stores 1.0, and v otherwise.
C25_VolumeClamped ==
  /\ playback.volume \in 0..100
  /\ playOp.op = "AudioPlayback.set_volume" =>
       playback.volume = CASE requested < 0   -> 0
                           [] requested > 100 -> 100
                           [] OTHER           -> requested

\* C25's case: set_volume(-0.5) has just left the volume at 0.0.
C25_Witness ==
  /\ playOp.op = "AudioPlayback.set_volume"
  /\ requested = 0 - 50
  /\ playback.volume = 0

\* C26: for the fallback codec, decode(encode(frame)) is bit-exact for every
\* int16 frame whose length is a multiple of the channel count: it returns,
\* with the same samples in the same order and number, as a 2-D array of
\* `channels` columns.
C26_RoundTrip ==
  [][(/\ codecOp.op = "SimpleCodec.encode"
      /\ codecOp'.op = "SimpleCodec.decode"
      /\ Len(codecOp.frame.samples) % codec.channels = 0)
       => /\ codecOp'.data = SimpleEncode(codecOp.frame)
          /\ Len(codecOp'.data) = 2 * Len(codecOp.frame.samples)
          /\ codecOp'.result = "returned"
          /\ codecOp'.frame.ndim = 2
          /\ codecOp'.frame.samples = codecOp.frame.samples]_vars

\* C26's case: a stereo codec has decoded the eight bytes that encode() made
\* of the two rows (-32768, 32767) and (-1, -1), and returned those rows.
C26_Witness ==
  /\ codecOp.op = "SimpleCodec.decode"
  /\ codec.channels = 2
  /\ codecOp.data = <<0, 128, 255, 127, 255, 255, 255, 255>>
  /\ codecOp.result = "returned"
  /\ codecOp.frame = Array(2, <<0 - 32768, 32767, 0 - 1, 0 - 1>>)

\* C27: update_target(ip, port) changes the target and nothing else (the
\* running flag, the socket, the sequence counter and the statistics stay,
\* the datagrams already transmitted stay as they are), and every send() made
\* after it addresses its datagram to the target the fields hold then.
C27_UpdateTargetRedirects ==
  [][/\ lastOp'.op \in {"UDPSender.update_target", "AudioStreamer.update_target"}
          => /\ [ip |-> sender'.target_ip, port |-> sender'.target_port] \in Targets
             /\ sender' = [sender EXCEPT !.target_ip = sender'.target_ip,
                                         !.target_port = sender'.target_port]
             /\ wire' = wire
             /\ sockets' = sockets
     /\ wire' # wire
          => /\ Len(wire') = Len(wire) + 1
             /\ SubSeq(wire', 1, Len(wire)) = wire
             /\ wire'[Len(wire')].ip = sender.target_ip
             /\ wire'[Len(wire')].port = sender.target_port
             /\ sender'.target_ip = sender.target_ip
             /\ sender'.target_port = sender.target_port]_vars

\* C27's case: in one session of a running sender, the first datagram went to
\* the address given at construction and the second, sent after
\* update_target("10.0.0.3", 6001), to that address with the next sequence
\* number.
C27_Witness ==
  /\ lastOp = Op("UDPSender.send", TRUE, "sent")
  /\ Len(wire) = 2
  /\ wire[1].ip = "10.0.0.1" /\ wire[1].port = 5001
  /\ wire[2].ip = "10.0.0.3" /\ wire[2].port = 6001
  /\ SequenceOf(wire[1].data) = U32(0)
  /\ SequenceOf(wire[2].data) = U32(1)
  /\ session_sends = PyInt(2)
  /\ sender.packets_sent = PyInt(2)

\* The bytes of the datagrams in h, added up.
RECURSIVE TotalBytes(_)
TotalBytes(h) == IF h = <<>> THEN 0 ELSE Len(Head(h)) + TotalBytes(Tail(h))

\* C28: over a channel that neither drops, duplicates nor reorders, once the
\* N datagrams a started sender has sent have reached the started receiver,
\* the receiver shows packets_received = N = packets_sent, packets_lost = 0
\* and bytes_received = bytes_sent; on the way it has counted what has
\* arrived and no loss; and with every frame decoded and pushed the queue
\* never holds more than its capacity.
C28_EndToEnd ==
  /\ Len(audio_queue) <= 2 * playback.buffer_size
  /\ receiver.packets_received = Len(arrived)
  /\ receiver.bytes_received = TotalBytes(arrived)
  /\ receiver.packets_lost = 0
  /\ \A i \in 1..Len(arrived) : arrived[i] = wire[i].data
  /\ Len(arrived) = Len(wire) =>
       /\ PyInt(receiver.packets_received) = sender.packets_sent
       /\ PyInt(receiver.bytes_received) = sender.bytes_sent
       /\ receiver.packets_received = Len(wire)

\* C28's case: three datagrams were sent and all three have arrived in order,
\* each decoded and pushed; the queue is at its capacity, one frame having
\* been taken by the output device or evicted.
C28_Witness ==
  /\ app.is_streaming
  /\ Len(wire) = 3
  /\ Len(arrived) = 3
  /\ Len(delivered) = 3
  /\ sender.packets_sent = PyInt(3)
  /\ receiver.packets_received = 3
  /\ receiver.bytes_received = 3 * (HEADER_SIZE + 4)
  /\ receiver.last_sequence = U32(2)
  /\ producer.pc = "idle"
  /\ Len(audio_queue) = 2 * playback.buffer_size

\* How far the arriving datagram's sequence is behind the field _last_sequence:
\* (last_sequence - sequence) mod 2^32.
Behind == WSub(receiver.last_sequence, SequenceOf(Arriving))

\* What the loop does with a datagram repeating the last sequence: its gap is
\* 2^32 - 1, it is counted and handed to the callback, and nothing is added to
\* packets_lost.
DeliveredAgain ==
  /\ ArrivingGap = U32Max
  /\ receiver'.packets_received = receiver.packets_received + 1
  /\ receiver.callback => delivered' = Append(delivered, ArrivingCall)
  /\ receiver'.packets_lost = receiver.packets_lost

\* C29 as stated: a datagram repeating the sequence number just received is
\* delivered to the callback again, counted in packets_received and adds
\* nothing to packets_lost (its gap is 2^32 - 1); and a datagram whose sequence
\* is behind the last one by k, 1 <= k <= 2^32 - 1000, adds nothing to
\* packets_lost.
C29_BehindNotCounted ==
  [][(Accepts /\ receiver.last_sequence # NoSequence) =>
       /\ Behind = U32(0) => DeliveredAgain
       /\ (Behind # U32(0) /\ WLeq(Behind, WSub(U32(0), U32(1000))))
            => receiver'.packets_lost = receiver.packets_lost]_vars

\* C29 with the range ending one earlier: a datagram repeating the sequence
\* number just received is delivered again, counted and adds nothing to
\* packets_lost (its gap is 2^32 - 1); and one behind the last by k,
\* 1 <= k <= 2^32 - 1001, adds nothing to packets_lost. (Behind by 2^32 - 1000
\* is ahead by 1000: a gap of 999, which is counted.)
C29_BehindNotCounted_amended ==
  [][(Accepts /\ receiver.last_sequence # NoSequence) =>
       /\ Behind = U32(0) => DeliveredAgain
       /\ (Behind # U32(0) /\ WLeq(Behind, WSub(U32(0), U32(1001))))
            => receiver'.packets_lost = receiver.packets_lost]_vars

\* C29's case: a datagram, the same sequence number again, then the number
\* before it; all three were counted and handed to the callback and nothing
\* was counted as lost.
C29_Witness ==
  /\ Len(arrived) = 3
  /\ \A i \in 1..3 : Len(arrived[i]) >= HEADER_SIZE
  /\ SequenceOf(arrived[2]) = SequenceOf(arrived[1])
  /\ SuccessorOf(SequenceOf(arrived[3])) = SequenceOf(arrived[2])
  /\ receiver.packets_received = 3
  /\ Len(delivered) = 3
  /\ delivered[2][2] = delivered[1][2]
  /\ receiver.packets_lost = 0

\* The datagrams that arrived and were accepted (a header at least), in
\* arrival order.
Accepted == SelectSeq(arrived, LAMBDA d : Len(d) >= HEADER_SIZE)

\* The gap of the arriving datagram counted from the datagram accepted before
\* it, whatever arrived earlier.
GapFromPrevious ==
  WSub(SequenceOf(Arriving), SuccessorOf(SequenceOf(Accepted[Len(Accepted)])))

\* C30: after every accepted datagram last_sequence is that datagram's
\* sequence number, also when it is lower than the one before; what the next
\* datagram adds to packets_lost is computed from the most recent accepted
\* arrival alone; and the callback has been given the accepted payloads in
\* arrival order, one call each.
C30_LastArrivalOnly ==
  [][/\ Accepts => receiver'.last_sequence = SequenceOf(Arriving)
     /\ (Accepts /\ Accepted # <<>>) =>
          receiver'.packets_lost - receiver.packets_lost =
            IF GapFromPrevious[1] = 0 /\ GapFromPrevious[2] < 1000
            THEN GapFromPrevious[2]
            ELSE 0
     /\ receiver'.callback =>
          delivered' = [i \in 1..Len(Accepted') |->
                          <<SubSeq(Accepted'[i], HEADER_SIZE + 1, Len(Accepted'[i])),
                            SequenceOf(Accepted'[i])>>]]_vars

\* C30's case: sequence 7, then 6, then 8 have arrived: the last sequence is
\* 8, one packet (7, counted from 6) is counted as lost, and the callback got
\* the three in that order.
C30_Witness ==
  /\ Len(arrived) = 3
  /\ Len(Accepted) = 3
  /\ SequenceOf(arrived[1]) = U32(7)
  /\ SequenceOf(arrived[2]) = U32(6)
  /\ SequenceOf(arrived[3]) = U32(8)
  /\ receiver.last_sequence = U32(8)
  /\ receiver.packets_lost = 1
  /\ Len(delivered) = 3
  /\ delivered[2][2] = U32(6)

\* The datagram a send step has transmitted.
Transmitted == wire'[Len(wire')].data

\* C31: every datagram send(payload) transmits is a 12-byte header followed by
\* the payload unchanged, its first four bytes the sender's sequence number,
\* most significant first; the receiver's parse of that datagram yields that
\* sequence number and the same payload bytes; and bytes_sent and
\* bytes_received each grow by 12 plus the payload's length.
C31_FramingRoundTrip ==
  [][/\ wire' # wire =>
          /\ Len(Transmitted) = 12 + Len(Captured(Len(wire')))
          /\ SubSeq(Transmitted, 13, Len(Transmitted)) = Captured(Len(wire'))
          /\ SequenceOf(Transmitted) = sender.sequence
          /\ sender'.bytes_sent =
               WAdd(sender.bytes_sent, PyInt(12 + Len(Captured(Len(wire')))))
     /\ arrived' # arrived =>
          /\ Arriving = wire[Len(arrived')].data
          /\ receiver'.last_sequence = SequenceOf(wire[Len(arrived')].data)
          /\ delivered' = Append(delivered, <<Captured(Len(arrived')),
                                              SequenceOf(wire[Len(arrived')].data)>>)
          /\ receiver'.bytes_received =
               receiver.bytes_received + 12 + Len(Captured(Len(arrived')))]_vars

\* C31's case: three datagrams with payloads of 0, 1 and 2 bytes were sent
\* with sequence 0, 1, 2 and all three were parsed and handed to the callback:
\* 39 bytes counted at each end.
C31_Witness ==
  /\ Len(wire) = 3
  /\ Len(arrived) = 3
  /\ delivered = <<<<Captured(1), U32(0)>>, <<Captured(2), U32(1)>>,
                   <<Captured(3), U32(2)>>>>
  /\ Len(Captured(3)) = 2
  /\ sender.bytes_sent = PyInt(39)
  /\ receiver.bytes_received = 39
  /\ lastOp.op = "UDPReceiver._receive_loop"

\* No thread is inside stop() and the receiver is not running: stop() has
\* returned (or start() never succeeded).
Stopped == stopper.pc = "idle" /\ ~receiver.running

Executing == {t \in 1..MaxThreads : loops[t].pc # "none"}

\* C33: at every moment at most one receive-loop thread of the receiver is
\* executing, across any sequence of start() and stop() calls, also when a
\* start() follows a stop() whose join gave up on a thread that was still
\* alive.
C33_OneLoopThread == Cardinality(Executing) <= 1

\* C34: from the return of AudioPlayback.stop() until the next start() the
\* jitter queue is empty, under every interleaving with a play() on the
\* receive thread, also one that read the running flag before stop() cleared
\* it: while the playback is not running the queue holds no frame.
C34_EmptyWhileStopped == ~playback.running => audio_queue = <<>>

\* C35: the first valid datagram received after a UDPReceiver.start() that
\* started the receiver adds nothing to packets_lost, whatever its sequence
\* number, for the first start of a new receiver and for a start() after a
\* stop() of the same object.
C35_FirstAfterStartNoLoss ==
  [][(lastOp = Op("UDPReceiver.start", FALSE, "started") /\ Accepts)
       => receiver'.packets_lost = receiver.packets_lost]_vars

\* The address of the datagram a send step has transmitted.
AddressedTo == [ip |-> wire'[Len(wire')].ip, port |-> wire'[Len(wire')].port]

\* C36: every datagram the sender transmits is addressed to the complete old
\* target or to the complete new target of an update_target() that is running
\* at the same time (and to the target in the fields when none is), never to
\* the ip of one with the port of the other.
C36_TargetNeverMixed ==
  [][wire' # wire =>
       IF updating.pc = "idle"
       THEN AddressedTo = [ip |-> sender.target_ip, port |-> sender.target_port]
       ELSE AddressedTo \in {updating.old,
                             [ip |-> updating.ip, port |-> updating.port]}]_vars

\* The place of an arrived datagram among the datagrams sent.
SentAs(d) == CHOOSE i \in 1..Len(wire) : wire[i].data = d

\* The datagrams sent that have not reached the receiver.
NotReached ==
  {i \in 1..Len(wire) : \A k \in 1..Len(arrived) : arrived[k] # wire[i].data}

\* The datagrams have arrived in the order in which they were sent.
InSentOrder ==
  \A k \in 1..(Len(arrived) - 1) : SentAs(arrived[k]) < SentAs(arrived[k + 1])

\* C37 as stated: packets_lost never exceeds the number of sequence numbers
\* sent in the session that did not reach the receiver; in particular it is 0
\* when every datagram sent has arrived once, in whatever order.
C37_LostAreMissing == receiver.packets_lost <= Cardinality(NotReached)

\* C37 for arrivals in the order sent: when no datagram has overtaken
\* another, packets_lost does not exceed the number of datagrams sent before
\* the last arrival that did not reach the receiver; in particular it is 0
\* when every datagram sent has arrived once and in order.
C37_LostAreMissing_amended ==
  (arrived # <<>> /\ InSentOrder) =>
    receiver.packets_lost <=
      Cardinality({i \in NotReached : i < SentAs(arrived[Len(arrived)])})

\* C37's case: three datagrams were sent and the first and the third arrived,
\* in that order: one is counted as lost, the second.
C37_Witness ==
  /\ Len(wire) = 3
  /\ arrived = <<wire[1].data, wire[3].data>>
  /\ InSentOrder
  /\ NotReached = {2}
  /\ receiver.packets_lost = 1

====
